---- MODULE Spec2Model ----
(***************************************************************************)
(* Decision engine of the LogicCart website change request hub.            *)
(*                                                                         *)
(* Numbers (scores, confidences) are Python floats, held as integers in an  *)
(* order-preserving way (see Grain); H(n) is the float literal n / 100:    *)
(* H(50) is 0.5, H(100) is 1.0.                                            *)
(* Text is a TLA+ string; `in`, lower(), endswith() are computed on it.    *)
(* A value that comes out of json.loads is tagged with its Python type:    *)
(*   [t |-> "null"], [t |-> "bool", v |-> TRUE], [t |-> "num", v |-> 50],  *)
(*   [t |-> "str", v |-> "x"], [t |-> "list", v |-> <<"a", "b">>],         *)
(*   [t |-> "dict", v |-> [score |-> ...]]                                 *)
(* A Python dict is a function from its keys; an absent key is absent from *)
(* the DOMAIN.                                                             *)
(***************************************************************************)
EXTENDS Integers, Sequences, FiniteSets, TLC

VARIABLES
    pc,        \* position inside LogicCartAIAgent.process_request / write_result
    ticket,    \* the item get_ticket returns for the ticket id
    loc,       \* locals of _process_banner / _run_visual_analysis
    result,    \* the decision dict under construction / returned
    calls,     \* external calls made so far (presign, vision)
    store,     \* what the ticket store holds for the ticket
    sns,       \* the messages published to the notification topic
    fn,        \* component under direct call ("none" inside process_request)
    arg,       \* its argument
    out        \* its return value

vars == <<pc, ticket, loc, result, calls, store, sns, fn, arg, out>>

-----------------------------------------------------------------------------
(* Python values and built-ins *)

None == [t |-> "null"]
Bool(b) == [t |-> "bool", v |-> b]
Num(n) == [t |-> "num", v |-> n]
Str(s) == [t |-> "str", v |-> s]
List(q) == [t |-> "list", v |-> q]
Dict(d) == [t |-> "dict", v |-> d]
EmptyDict == Dict(<<>>)

\* bool(x)
Truthy(x) ==
    CASE x.t = "null" -> FALSE
      [] x.t = "bool" -> x.v
      [] x.t = "num"  -> x.v # 0
      [] x.t = "str"  -> x.v # ""
      [] x.t = "list" -> x.v # <<>>
      [] x.t = "dict" -> DOMAIN x.v # {}

\* d.get(k, dflt)
Get(d, k, dflt) == IF k \in DOMAIN d THEN d[k] ELSE dflt

\* d[k] = val
DictSet(d, k, val) == [x \in DOMAIN d \cup {k} |-> IF x = k THEN val ELSE d[x]]

\* x or y
Or(x, y) == IF Truthy(x) THEN x ELSE y

\* isinstance(x, (int, float)): a Python bool is an int
IsNumber(x) == x.t \in {"num", "bool"}

\* A float is held as the integer h * Grain + u: the binary64 number nearest to
\* h / 3600, moved by u steps of half its unit in the last place. The order of the
\* integers is the order of the floats, so comparisons, min and max are those of the
\* integers; sums and quotients are rounded as binary64 rounds them (see Mean).
Grain == 64

\* The float literal n / 100
H(n) == n * 36 * Grain

\* float(x) of a number
Float(x) == IF x.t = "bool" THEN (IF x.v THEN H(100) ELSE 0) ELSE x.v

Min(a, b) == IF a < b THEN a ELSE b
Max(a, b) == IF a > b THEN a ELSE b

\* k in s, for strings
IsSubstr(k, s) == \E i \in 0..(Len(s) - Len(k)) : SubSeq(s, i + 1, i + Len(k)) = k

\* s.endswith(suf)
EndsWith(s, suf) == Len(suf) <= Len(s) /\ SubSeq(s, Len(s) - Len(suf) + 1, Len(s)) = suf

UpperLetters == "ABCDEFGHIJKLMNOPQRSTUVWXYZ"
LowerLetters == "abcdefghijklmnopqrstuvwxyz"

LowerChar(c) ==
    IF \E i \in 1..Len(UpperLetters) : SubSeq(UpperLetters, i, i) = c
    THEN LET i == CHOOSE j \in 1..Len(UpperLetters) : SubSeq(UpperLetters, j, j) = c
         IN  SubSeq(LowerLetters, i, i)
    ELSE c

UpperChar(c) ==
    IF \E i \in 1..Len(LowerLetters) : SubSeq(LowerLetters, i, i) = c
    THEN LET i == CHOOSE j \in 1..Len(LowerLetters) : SubSeq(LowerLetters, j, j) = c
         IN  SubSeq(UpperLetters, i, i)
    ELSE c

RECURSIVE lower(_)
lower(s) ==
    IF Len(s) <= 1 THEN LowerChar(s)
    ELSE LET half == Len(s) \div 2
         IN  lower(SubSeq(s, 1, half)) \o lower(SubSeq(s, half + 1, Len(s)))

RECURSIVE upper(_)
upper(s) ==
    IF Len(s) <= 1 THEN UpperChar(s)
    ELSE LET half == Len(s) \div 2
         IN  upper(SubSeq(s, 1, half)) \o upper(SubSeq(s, half + 1, Len(s)))

\* [f(x) for x in q if keep(x)] helpers over sequences
RECURSIVE SelectTruthy(_)
SelectTruthy(q) ==
    IF q = <<>> THEN <<>>
    ELSE (IF Head(q) # "" THEN <<Head(q)>> ELSE <<>>) \o SelectTruthy(Tail(q))

\* q[:n] with Python's meaning of a negative n (drop the last -n items)
Slice(q, n) ==
    IF n >= 0 THEN SubSeq(q, 1, Min(n, Len(q)))
    ELSE SubSeq(q, 1, Max(0, Len(q) + n))

-----------------------------------------------------------------------------
(* Response Normalizer: NovaLiteAnalyzer._validate_analysis_structure *)

\* A sub-object that is truthy but no dict makes the item assignment or the
\* .get() on it raise (TypeError / AttributeError).
SubObject(analysis, key) == Or(Get(analysis, key, EmptyDict), EmptyDict)

validate_raises(analysis) ==
    \E key \in {"visual_quality", "accessibility", "content_appropriateness",
                "overall_compliance"} : SubObject(analysis, key).t # "dict"

normalize_visual_quality(vq) ==
    LET a == IF "score" \notin DOMAIN vq \/ ~IsNumber(vq["score"])
             THEN DictSet(vq, "score", Num(H(50))) ELSE vq
    IN  IF "issues" \notin DOMAIN a \/ a["issues"].t # "list"
        THEN DictSet(a, "issues", List(<<>>)) ELSE a

\* A logo flag with the polarity of the coercion inverted
normalize_logo_present_inverted(analysis) ==
    Bool(~Truthy(Get(analysis, "logo_present", Bool(FALSE))))

normalize_logo_present(analysis) == Bool(Truthy(Get(analysis, "logo_present", Bool(FALSE))))

normalize_accessibility(acc) ==
    LET a == DictSet(acc, "contrast_adequate",
                     Bool(Truthy(Get(acc, "contrast_adequate", Bool(FALSE)))))
    IN  DictSet(a, "text_readable", Bool(Truthy(Get(a, "text_readable", Bool(FALSE)))))

normalize_content_appropriateness(ca) ==
    LET a == DictSet(ca, "appropriate", Bool(Truthy(Get(ca, "appropriate", Bool(TRUE)))))
    IN  IF Get(a, "concerns", None).t # "list"
        THEN DictSet(a, "concerns", List(<<>>)) ELSE a

normalize_overall_compliance(oc) ==
    LET a == DictSet(oc, "compliant", Bool(Truthy(Get(oc, "compliant", Bool(FALSE)))))
        b == IF ~IsNumber(Get(a, "confidence", None))
             THEN DictSet(a, "confidence", Num(H(50))) ELSE a
    IN  IF Get(b, "summary", Str("")).t # "str"
        THEN DictSet(b, "summary", Str("Analysis completed")) ELSE b

\* Defined when ~validate_raises(analysis).
_validate_analysis_structure(analysis) ==
    [ colors_detected |-> Or(Get(analysis, "colors_detected", List(<<>>)), List(<<>>)),
      logo_present |-> normalize_logo_present(analysis),
      brand_elements |-> Or(Get(analysis, "brand_elements", List(<<>>)), List(<<>>)),
      text_content |-> Or(Get(analysis, "text_content", List(<<>>)), List(<<>>)),
      visual_quality |-> Dict(normalize_visual_quality(SubObject(analysis, "visual_quality").v)),
      accessibility |-> Dict(normalize_accessibility(SubObject(analysis, "accessibility").v)),
      content_appropriateness |->
          Dict(normalize_content_appropriateness(SubObject(analysis, "content_appropriateness").v)),
      overall_compliance |->
          Dict(normalize_overall_compliance(SubObject(analysis, "overall_compliance").v)) ]

-----------------------------------------------------------------------------
(* Small utilities of handler.py *)

\* A trim that keeps every item, to tell the reason limit apart from its inputs
_trim_to_fit_unbounded(items, max_items) == items

\* [s for s in items if s][:max_items]
_trim_to_fit(items, max_items) == Slice(SelectTruthy(items), max_items)

QualityBlockerKeywords ==
    {"blurry", "blur", "pixelation", "pixelated", "compression", "artifact",
     "low resolution", "poor resolution", "noisy", "distortion"}

_looks_like_quality_blocker(text) ==
    LET t == lower(text)
    IN  \E k \in QualityBlockerKeywords : IsSubstr(k, t)

RECURSIVE Bullets(_)
\* "\n".join(f"* {r}" for r in reasons)
Bullets(reasons) ==
    IF reasons = <<>> THEN ""
    ELSE "* " \o Head(reasons) \o (IF Len(reasons) > 1 THEN "\n" ELSE "") \o Bullets(Tail(reasons))

-----------------------------------------------------------------------------
(* Email builders of handler.py (the body is cut down to greeting, narrative,  *)
(* bullets and image section; the other ticket fields only fill in text)       *)

\* _get_image_urls_section: one presign call per asset that has a key
ImagesSection(image_urls) ==
    IF image_urls = <<>> THEN "* No images attached" ELSE Bullets(image_urls)

_banner_approve_email(t, reasons, image_urls) ==
    [ subject |-> "New Request " \o t.id \o " - Approved",
      body |-> "Hello " \o t.requester_name \o ",\nApproval Summary:\n"
               \o Bullets(_trim_to_fit(reasons, 5))
               \o "\nApproved Images:\n" \o ImagesSection(image_urls) ]

_banner_needs_info_email(t, reasons, image_urls) ==
    [ subject |-> "New Request " \o t.id \o " - Additional Information Required",
      body |-> "Hello " \o t.requester_name \o ",\nTo finalize approval, please review:\n"
               \o Bullets(_trim_to_fit(reasons, 5))
               \o "\nSubmitted Images:\n" \o ImagesSection(image_urls) ]

_banner_reject_email(t, reasons, image_urls) ==
    [ subject |-> "New Request " \o t.id \o " - Not Approved",
      body |-> "Hello " \o t.requester_name \o ",\nIssues Found:\n"
               \o Bullets(_trim_to_fit(reasons, 5))
               \o "\nSubmitted Images:\n" \o ImagesSection(image_urls) ]

_feature_email_from_policy(t) ==
    [ subject |-> "New Request " \o t.id \o " - Additional Information Required",
      body |-> "Hello " \o t.requester_name
               \o ",\nAdditional Information Required:\n1. Visual Design\n"
               \o "2. Technical Specifications\n3. Success Metrics" ]

-----------------------------------------------------------------------------
(* Response helpers of handler.py.  NoTicket stands for ticket=None; a     *)
(* ticket loaded by get_ticket is a non-empty dict, hence truthy.          *)

NoTicket == <<>>
NoEmail == <<>>

Clamp01(confidence) == Min(H(100), Max(0, confidence))

\* An _approve that never reports more than 0.9
_approve_capped(reasons, confidence, analysis_method, t, image_urls) ==
    LET r == [ decision |-> "APPROVE", reasons |-> _trim_to_fit(reasons, 5),
               confidence |-> Min(H(90), Clamp01(confidence)),
               analysis_method |-> analysis_method ]
    IN  IF t # NoTicket
        THEN DictSet(r, "email", _banner_approve_email(t, reasons, image_urls)) ELSE r

_approve(reasons, confidence, analysis_method, t, image_urls) ==
    LET r == [ decision |-> "APPROVE", reasons |-> _trim_to_fit(reasons, 5),
               confidence |-> Clamp01(confidence), analysis_method |-> analysis_method ]
    IN  IF t # NoTicket
        THEN DictSet(r, "email", _banner_approve_email(t, reasons, image_urls)) ELSE r

\* A _reject that passes the confidence through as given
_reject_unclamped(reasons, confidence, analysis_method, t, image_urls) ==
    LET r == [ decision |-> "REJECT", reasons |-> _trim_to_fit(reasons, 5),
               confidence |-> confidence, analysis_method |-> analysis_method ]
    IN  IF t # NoTicket
        THEN DictSet(r, "email", _banner_reject_email(t, reasons, image_urls)) ELSE r

_reject(reasons, confidence, analysis_method, t, image_urls) ==
    LET r == [ decision |-> "REJECT", reasons |-> _trim_to_fit(reasons, 5),
               confidence |-> Clamp01(confidence), analysis_method |-> analysis_method ]
    IN  IF t # NoTicket
        THEN DictSet(r, "email", _banner_reject_email(t, reasons, image_urls)) ELSE r

_needs_info(reasons, confidence, email, analysis_method) ==
    LET r == [ decision |-> "NEEDS_INFO", reasons |-> _trim_to_fit(reasons, 5),
               confidence |-> Clamp01(confidence), analysis_method |-> analysis_method ]
    IN  IF email # NoEmail THEN DictSet(r, "email", email) ELSE r

-----------------------------------------------------------------------------
(* Vision Policy Interpreter: LogicCartAIAgent._visual_policy_decision *)

BrandColors == {"#5754FF", "#5E60F1", "#6366F1", "#8B5CF6", "#A855F7", "#C084FC"}
BrandFragments == {"5754", "5E60", "6366", "8B5C", "A855", "C084"}

\* The items `for c in colors_detected` iterates: the elements of a list, the
\* characters of a string.
IterItems(x) ==
    IF x.t = "list" THEN x.v
    ELSE IF x.t = "str" THEN [i \in 1..Len(x.v) |-> SubSeq(x.v, i, i)]
    ELSE <<>>

\* Iterating a truthy number or bool raises TypeError.
NotIterable(x) == x.t \in {"num", "bool"} /\ Truthy(x)

has_brand_color(visual) ==
    LET cd == Or(Get(visual, "colors_detected", None), List(<<>>))
        colors == {upper(IterItems(cd)[i]) : i \in 1..Len(IterItems(cd))}
    IN  \/ \E c \in BrandColors : c \in colors
        \/ \E c \in colors : \E brand \in BrandFragments : IsSubstr(brand, c)

is_festival(t) == IsSubstr("festival", lower(t.title \o " " \o t.description))

Raise(what) == [raised |-> what]
Raised(r) == "raised" \in DOMAIN r

\* An interpreter whose low-confidence approval also asks for the compliant flag
_visual_policy_decision_unsure(t, visual, prior_reasons, image_urls) ==
    LET content == Or(Get(visual, "content_appropriateness", None), EmptyDict).v
        quality == Or(Get(visual, "visual_quality", None), EmptyDict).v
        overall == Or(Get(visual, "overall_compliance", None), EmptyDict).v
        appropriate == Truthy(Get(content, "appropriate", Bool(TRUE)))
        quality_score == Float(Get(quality, "score", Num(0)))
        bad == Or(Get(content, "concerns", None), List(<<>>)).v
        issues == Or(Get(quality, "issues", None), List(<<>>)).v \o bad
        confidence_ai == Float(Get(overall, "confidence", Num(H(60))))
        compliant_flag == Truthy(Get(overall, "compliant", Bool(FALSE)))
        reasons == prior_reasons
        brand == has_brand_color(visual)
        festival == is_festival(t)
        ni1 == prior_reasons
               \o (IF quality_score < H(40) THEN <<"Image quality may need improvement">> ELSE <<>>)
        needs_info_reasons ==
            ni1 \o (IF ~brand /\ ~festival /\ ~compliant_flag
                    THEN <<"Brand alignment could be enhanced">> ELSE <<>>)
    IN  IF ~appropriate THEN
            LET rs == IF bad # <<>>
                      THEN reasons \o Slice(bad, 5 - Len(reasons))
                      ELSE Append(reasons, "Inappropriate or unprofessional content detected")
            IN  _reject(Slice(rs, 5), Max(H(70), confidence_ai), "policy_visual", t, image_urls)
        ELSE IF quality_score <= H(30) \/ \E i \in 1..Len(issues) :
                    issues[i] # "" /\ _looks_like_quality_blocker(issues[i]) THEN
            LET rs == reasons \o _trim_to_fit(issues, 5 - Len(reasons))
            IN  _reject(Slice(rs, 5), Max(H(70), confidence_ai), "policy_visual", t, image_urls)
        ELSE IF NotIterable(Or(Get(visual, "colors_detected", None), List(<<>>))) THEN
            Raise("TypeError: object is not iterable")
        ELSE IF appropriate /\ quality_score >= H(50) /\ (brand \/ festival \/ compliant_flag) THEN
            _approve(<<"Professional image quality", "Appropriate content",
                       "Brand alignment acceptable">>,
                     Min(H(100), Max(H(80), confidence_ai)), "policy_visual", t, image_urls)
        ELSE IF appropriate /\ quality_score >= H(40) /\ compliant_flag /\ issues = <<>> THEN
            _approve(<<"Meets policy standards", "No significant issues detected">>,
                     Min(H(90), Max(H(70), confidence_ai)), "policy_visual", t, image_urls)
        ELSE IF needs_info_reasons = <<>> /\ appropriate /\ compliant_flag THEN
            _approve(<<"Acceptable quality", "No policy violations detected">>,
                     Max(H(60), confidence_ai), "policy_visual", t, image_urls)
        ELSE IF needs_info_reasons # <<>> THEN
            _needs_info(_trim_to_fit(needs_info_reasons, 5), Max(H(60), confidence_ai),
                        _banner_needs_info_email(t, needs_info_reasons, image_urls),
                        "policy_visual")
        ELSE Raise("NameError: name 'tic' is not defined")

_visual_policy_decision(t, visual, prior_reasons, image_urls) ==
    LET content == Or(Get(visual, "content_appropriateness", None), EmptyDict).v
        quality == Or(Get(visual, "visual_quality", None), EmptyDict).v
        overall == Or(Get(visual, "overall_compliance", None), EmptyDict).v
        appropriate == Truthy(Get(content, "appropriate", Bool(TRUE)))
        quality_score == Float(Get(quality, "score", Num(0)))
        bad == Or(Get(content, "concerns", None), List(<<>>)).v
        issues == Or(Get(quality, "issues", None), List(<<>>)).v \o bad
        confidence_ai == Float(Get(overall, "confidence", Num(H(60))))
        compliant_flag == Truthy(Get(overall, "compliant", Bool(FALSE)))
        reasons == prior_reasons
        brand == has_brand_color(visual)
        festival == is_festival(t)
        ni1 == prior_reasons
               \o (IF quality_score < H(40) THEN <<"Image quality may need improvement">> ELSE <<>>)
        needs_info_reasons ==
            ni1 \o (IF ~brand /\ ~festival /\ ~compliant_flag
                    THEN <<"Brand alignment could be enhanced">> ELSE <<>>)
    IN  IF ~appropriate THEN
            LET rs == IF bad # <<>>
                      THEN reasons \o Slice(bad, 5 - Len(reasons))
                      ELSE Append(reasons, "Inappropriate or unprofessional content detected")
            IN  _reject(Slice(rs, 5), Max(H(70), confidence_ai), "policy_visual", t, image_urls)
        ELSE IF quality_score <= H(30) \/ \E i \in 1..Len(issues) :
                    issues[i] # "" /\ _looks_like_quality_blocker(issues[i]) THEN
            LET rs == reasons \o _trim_to_fit(issues, 5 - Len(reasons))
            IN  _reject(Slice(rs, 5), Max(H(70), confidence_ai), "policy_visual", t, image_urls)
        ELSE IF NotIterable(Or(Get(visual, "colors_detected", None), List(<<>>))) THEN
            Raise("TypeError: object is not iterable")
        ELSE IF appropriate /\ quality_score >= H(50) /\ (brand \/ festival \/ compliant_flag) THEN
            _approve(<<"Professional image quality", "Appropriate content",
                       "Brand alignment acceptable">>,
                     Min(H(100), Max(H(80), confidence_ai)), "policy_visual", t, image_urls)
        ELSE IF appropriate /\ quality_score >= H(40) /\ compliant_flag /\ issues = <<>> THEN
            _approve(<<"Meets policy standards", "No significant issues detected">>,
                     Min(H(90), Max(H(70), confidence_ai)), "policy_visual", t, image_urls)
        ELSE IF needs_info_reasons = <<>> /\ appropriate THEN
            _approve(<<"Acceptable quality", "No policy violations detected">>,
                     Max(H(60), confidence_ai), "policy_visual", t, image_urls)
        ELSE IF needs_info_reasons # <<>> THEN
            _needs_info(_trim_to_fit(needs_info_reasons, 5), Max(H(60), confidence_ai),
                        _banner_needs_info_email(t, needs_info_reasons, image_urls),
                        "policy_visual")
        ELSE Raise("NameError: name 'tic' is not defined")

-----------------------------------------------------------------------------
(* URL/Domain Validator: LogicCartAIAgent._validate_urls *)

APPROVED_DOMAINS == <<"logicart.com", "shop.logicart.com", "blog.logicart.com",
                      "support.logicart.com">>
REDIRECT_HOST_HINTS == <<"bit.ly", "t.co", "lnkd.in", "goo.gl", "is.gd", "tinyurl.com",
                         "redirect", "tracker">>

SchemeChars == LowerLetters \o UpperLetters \o "0123456789+-."

\* First index >= from of a character of s that occurs in chars, 0 if none
RECURSIVE FindAny(_, _, _)
FindAny(s, chars, from) ==
    IF from > Len(s) THEN 0
    ELSE IF IsSubstr(SubSeq(s, from, from), chars) THEN from
    ELSE FindAny(s, chars, from + 1)

\* urlparse(url).netloc: what follows "//" after an optional scheme, up to the
\* first of "/", "?", "#"
urlparse_netloc(url) ==
    LET colon == FindAny(url, ":", 1)
        has_scheme == /\ colon > 1
                      /\ IsSubstr(SubSeq(url, 1, 1), LowerLetters \o UpperLetters)
                      /\ \A j \in 1..(colon - 1) : IsSubstr(SubSeq(url, j, j), SchemeChars)
        rest == IF has_scheme THEN SubSeq(url, colon + 1, Len(url)) ELSE url
        stop == FindAny(rest, "/?#", 3)
    IN  IF SubSeq(rest, 1, Min(2, Len(rest))) = "//"
        THEN SubSeq(rest, 3, IF stop = 0 THEN Len(rest) ELSE stop - 1)
        ELSE ""

\* urlparse raises ValueError("Invalid IPv6 URL") on an unbalanced bracket
urlparse_raises(url) ==
    LET netloc == urlparse_netloc(url)
    IN  IsSubstr("[", netloc) # IsSubstr("]", netloc)

InList(x, q) == \E i \in 1..Len(q) : q[i] = x

host_approved(host) ==
    \/ InList(host, APPROVED_DOMAINS)
    \/ \E i \in 1..Len(APPROVED_DOMAINS) :
          host = APPROVED_DOMAINS[i] \/ EndsWith(host, "." \o APPROVED_DOMAINS[i])

host_redirect_hint(host) ==
    /\ \E i \in 1..Len(REDIRECT_HOST_HINTS) : IsSubstr(REDIRECT_HOST_HINTS[i], host)
    /\ ~InList(host, APPROVED_DOMAINS)

\* The findings of one URL: [reject_reasons, needs_info_reasons]
validate_url(url) ==
    IF url = "" THEN [reject_reasons |-> <<>>, needs_info_reasons |-> <<>>]
    ELSE IF urlparse_raises(url)
    THEN [reject_reasons |-> <<>>,
          needs_info_reasons |-> <<"URL needs verification: " \o url>>]
    ELSE LET host == lower(urlparse_netloc(url))
         IN  IF ~host_approved(host)
             THEN [reject_reasons |-> <<"Non-approved URL domain: " \o url>>,
                   needs_info_reasons |-> <<>>]
             ELSE IF host_redirect_hint(host)
             THEN [reject_reasons |-> <<>>,
                   needs_info_reasons |-> <<"URL might be an external redirect: " \o url>>]
             ELSE [reject_reasons |-> <<>>, needs_info_reasons |-> <<>>]

RECURSIVE _validate_urls(_)
_validate_urls(urls) ==
    IF urls = <<>> THEN [reject_reasons |-> <<>>, needs_info_reasons |-> <<>>]
    ELSE LET h == validate_url(Head(urls))
             r == _validate_urls(Tail(urls))
         IN  [reject_reasons |-> h.reject_reasons \o r.reject_reasons,
              needs_info_reasons |-> h.needs_info_reasons \o r.needs_info_reasons]

-----------------------------------------------------------------------------
(* NovaLiteAnalyzer: records built without a parsed model answer *)

_create_error_analysis(error_message) ==
    [ colors_detected |-> List(<<>>),
      logo_present |-> Bool(FALSE),
      brand_elements |-> List(<<>>),
      text_content |-> List(<<>>),
      visual_quality |-> Dict([score |-> Num(0),
                               issues |-> List(<<"Analysis failed: " \o error_message>>)]),
      accessibility |-> Dict([contrast_adequate |-> Bool(FALSE), text_readable |-> Bool(FALSE)]),
      content_appropriateness |->
          Dict([appropriate |-> Bool(FALSE), concerns |-> List(<<"Visual analysis unavailable">>)]),
      overall_compliance |->
          Dict([compliant |-> Bool(FALSE), confidence |-> Num(0),
                summary |-> Str("Analysis failed: " \o error_message)]),
      error |-> Bool(TRUE),
      error_message |-> Str(error_message) ]

_create_fallback_analysis(analysis_text) ==
    LET text_lower == lower(analysis_text)
        colors == IF IsSubstr("#5754ff", text_lower) \/ IsSubstr("purple", text_lower)
                  THEN <<"#5754FF">> ELSE <<>>
        logo_flag == \E k \in {"logo", "logicart", "branding"} : IsSubstr(k, text_lower)
    IN  [ colors_detected |-> List(colors),
          logo_present |-> Bool(logo_flag),
          brand_elements |-> List(IF logo_flag THEN <<"LogicCart branding">> ELSE <<>>),
          text_content |-> List(<<>>),
          visual_quality |-> Dict([score |-> Num(H(40)),
                                   issues |-> List(<<"Unable to parse model JSON">>)]),
          accessibility |->
              Dict([contrast_adequate |-> Bool(FALSE), text_readable |-> Bool(FALSE)]),
          content_appropriateness |-> Dict([appropriate |-> Bool(TRUE), concerns |-> List(<<>>)]),
          overall_compliance |->
              Dict([compliant |-> Bool(FALSE), confidence |-> Num(H(30)),
                    summary |-> Str("Fallback generated due to parsing issues")]),
          raw_analysis |-> Str(analysis_text),
          parsing_error |-> Bool(TRUE) ]

\* The least element of a non-empty set of integers
Least(S) == CHOOSE i \in S : \A j \in S : i <= j

\* text.find(sub) + 1: the first index where sub occurs, 0 if none
find(text, sub) ==
    LET at == {i \in 1..(Len(text) - Len(sub) + 1) : SubSeq(text, i, i + Len(sub) - 1) = sub}
    IN  IF at = {} THEN 0 ELSE Least(at)

\* text.replace(old, ""): the occurrences of old are removed from left to right
RECURSIVE remove_all(_, _)
remove_all(text, old) ==
    LET i == find(text, old)
    IN  IF i = 0 THEN text
        ELSE SubSeq(text, 1, i - 1) \o remove_all(SubSeq(text, i + Len(old), Len(text)), old)

\* s[i], "" outside the string
At(s, i) == IF 1 <= i /\ i <= Len(s) THEN SubSeq(s, i, i) ELSE ""

\* c is one character of chars
IsChar(c, chars) == c # "" /\ IsSubstr(c, chars)

\* s[i:].startswith(lit)
StartsAt(s, i, lit) == i + Len(lit) - 1 <= Len(s) /\ SubSeq(s, i, i + Len(lit) - 1) = lit

\* The loop of _extract_json over the braces at the indices in rest, brace the
\* count so far: the index after the "}" that brings the count back to 0, 0 when the
\* text ends first. Braces inside JSON strings are counted too.
RECURSIVE balanced_end(_, _, _)
balanced_end(t, rest, brace) ==
    IF rest = {} THEN 0
    ELSE LET i == Least(rest)
         IN  IF At(t, i) = "{" THEN balanced_end(t, rest \ {i}, brace + 1)
             ELSE IF brace = 1 THEN i + 1
             ELSE balanced_end(t, rest \ {i}, brace - 1)

\* The Markdown code fence, three backquotes in the source: a TLA+ string cannot
\* hold a backquote, "~" stands for it
Fence == "~~~"

\* The first balanced {...} of the text without its code fences; "" stands for None
\* (a found object is never empty).
_extract_json(text) ==
    IF text = "" THEN ""
    ELSE LET t == remove_all(remove_all(text, Fence \o "json"), Fence)
             start == find(t, "{")
             end == IF start = 0 THEN 0
                    ELSE balanced_end(t, {i \in start..Len(t) : IsChar(At(t, i), "{}")}, 0)
         IN  IF end = 0 THEN "" ELSE SubSeq(t, start, end - 1)

\* json.loads on the JSON of the model answers: objects, arrays, strings without
\* escapes, true/false/null and decimal numbers without exponent. A decoder step
\* at index i of s gives [ok, v, next]; ok = FALSE is JSONDecodeError.
JsonWhitespace == " \t\n\r"
JsonDigits == "0123456789"
JsonError == [ok |-> FALSE, v |-> None, next |-> 0]
JsonOk(v, next) == [ok |-> TRUE, v |-> v, next |-> next]

RECURSIVE json_skip(_, _)
json_skip(s, i) ==
    IF IsChar(At(s, i), JsonWhitespace) THEN json_skip(s, i + 1) ELSE i

\* s[i] is the opening quote; control characters inside a string are an error
json_string(s, i) ==
    LET k == find(SubSeq(s, i + 1, Len(s)), "\"")
        close == IF k = 0 THEN 0 ELSE i + k
    IN  IF close = 0 \/ \E j \in (i + 1)..(close - 1) : IsChar(At(s, j), "\t\n\r")
        THEN JsonError
        ELSE JsonOk(Str(SubSeq(s, i + 1, close - 1)), close + 1)

\* The run of digits of s from index i, as [n |-> its value, len |-> its length]
RECURSIVE json_digits(_, _, _, _)
json_digits(s, i, n, len) ==
    IF IsChar(At(s, i), JsonDigits)
    THEN json_digits(s, i + 1, 10 * n + (FindAny(JsonDigits, At(s, i), 1) - 1), len + 1)
    ELSE [n |-> n, len |-> len]

RECURSIVE Pow10(_)
Pow10(k) == IF k = 0 THEN 1 ELSE 10 * Pow10(k - 1)

\* -?(0|[1-9][0-9]*)(\.[0-9]+)? in units of 1/3600
json_number(s, i) ==
    LET neg == At(s, i) = "-"
        j == IF neg THEN i + 1 ELSE i
        whole == IF At(s, j) = "0" THEN [n |-> 0, len |-> 1] ELSE json_digits(s, j, 0, 0)
        k == j + whole.len
        frac == IF At(s, k) = "." THEN json_digits(s, k + 1, 0, 0) ELSE [n |-> 0, len |-> 0]
        value == whole.n * H(100) + (frac.n * H(100)) \div Pow10(frac.len)
    IN  IF whole.len = 0 THEN JsonError
        ELSE IF frac.len = 0 THEN JsonOk(Num(IF neg THEN -value ELSE value), k)
        ELSE JsonOk(Num(IF neg THEN -value ELSE value), k + 1 + frac.len)

RECURSIVE json_value(_, _), json_members(_, _, _), json_elements(_, _, _)
json_value(s, from) ==
    LET i == json_skip(s, from)
        ch == At(s, i)
    IN  CASE i > Len(s) -> JsonError
          [] ch = "{" ->
                LET j == json_skip(s, i + 1)
                IN  IF At(s, j) = "}" THEN JsonOk(EmptyDict, j + 1)
                    ELSE json_members(s, j, <<>>)
          [] ch = "[" ->
                LET j == json_skip(s, i + 1)
                IN  IF At(s, j) = "]" THEN JsonOk(List(<<>>), j + 1)
                    ELSE json_elements(s, j, <<>>)
          [] ch = "\"" -> json_string(s, i)
          [] StartsAt(s, i, "true") -> JsonOk(Bool(TRUE), i + 4)
          [] StartsAt(s, i, "false") -> JsonOk(Bool(FALSE), i + 5)
          [] StartsAt(s, i, "null") -> JsonOk(None, i + 4)
          [] ch = "-" \/ IsChar(ch, JsonDigits) -> json_number(s, i)
          [] OTHER -> JsonError

\* "key": value pairs from index i on, d the pairs decoded so far; a repeated key
\* keeps its last value
json_members(s, i, d) ==
    LET after_value(key, val, sep) ==
            IF ~val.ok THEN JsonError
            ELSE IF At(s, sep) = "}"
                 THEN JsonOk(Dict(DictSet(d, key.v.v, val.v)), sep + 1)
            ELSE IF At(s, sep) = ","
                 THEN json_members(s, json_skip(s, sep + 1), DictSet(d, key.v.v, val.v))
            ELSE JsonError
        value_of(key, val) == after_value(key, val, IF val.ok THEN json_skip(s, val.next) ELSE 0)
        after_colon(key, colon) ==
            value_of(key, IF key.ok /\ At(s, colon) = ":"
                          THEN json_value(s, colon + 1) ELSE JsonError)
        after_key(key) == after_colon(key, IF key.ok THEN json_skip(s, key.next) ELSE 0)
    IN  IF At(s, i) # "\"" THEN JsonError ELSE after_key(json_string(s, i))

\* Array elements from index i on, q the elements decoded so far; a list holds its
\* strings bare
json_elements(s, i, q) ==
    LET after_value(val, sep, item) ==
            IF ~val.ok THEN JsonError
            ELSE IF At(s, sep) = "]" THEN JsonOk(List(Append(q, item)), sep + 1)
            ELSE IF At(s, sep) = "," THEN json_elements(s, sep + 1, Append(q, item))
            ELSE JsonError
        element(val) == after_value(val, IF val.ok THEN json_skip(s, val.next) ELSE 0,
                                    IF val.v.t = "str" THEN val.v.v ELSE val.v)
    IN  element(json_value(s, i))

\* json.loads(s): one value, then nothing but whitespace
json_loads(s) ==
    LET whole(r) == IF r.ok /\ json_skip(s, r.next) > Len(s) THEN r ELSE JsonError
    IN  whole(json_value(s, 1))

\* The parse with the handler of the normalizer's exception left out
_parse_analysis_response_uncaught(analysis_text) ==
    LET decoded(json_str, parsed) ==
            IF json_str = "" \/ ~parsed.ok THEN _create_fallback_analysis(analysis_text)
            ELSE IF validate_raises(parsed.v.v) THEN Raise("TypeError")
            ELSE _validate_analysis_structure(parsed.v.v)
        extracted(json_str) == decoded(json_str, json_loads(json_str))
    IN  extracted(_extract_json(analysis_text))

\* Every exception of the decoding and of the normalizer ends in the fallback record
_parse_analysis_response(analysis_text) ==
    LET decoded(json_str, parsed) ==
            IF json_str = "" THEN _create_fallback_analysis(analysis_text)
            ELSE IF ~parsed.ok THEN _create_fallback_analysis(analysis_text)
            ELSE IF validate_raises(parsed.v.v) THEN _create_fallback_analysis(analysis_text)
            ELSE _validate_analysis_structure(parsed.v.v)
        extracted(json_str) == decoded(json_str, json_loads(json_str))
    IN  extracted(_extract_json(analysis_text))

\* What one analyze_image_from_url call returns for an outcome of the download
\* and of the model invocation; it never raises.
analyze_image_from_url(outcome) ==
    CASE outcome.kind = "download_failed" ->
            _create_error_analysis("Image download failed: empty payload")
      [] outcome.kind = "invoke_failed" -> _create_error_analysis(outcome.msg)
      [] OTHER -> _parse_analysis_response(outcome.text)

(* sum(scores) / len(scores) in binary64: a float is the natural number
   value * 2^GridBits, written in limbs of 15 bits, the least first *)

LimbBase == 2^15
LimbIndex == 1..7
GridBits == 5 * 15

Greatest(S) == CHOOSE i \in S : \A j \in S : j <= i

\* The limbs of the number whose limb i counts raw[i], from limb i on with carry c
RECURSIVE Carried(_, _, _)
Carried(raw, i, c) ==
    IF i \notin LimbIndex THEN <<>>
    ELSE <<(raw[i] + c) % LimbBase>> \o Carried(raw, i + 1, (raw[i] + c) \div LimbBase)

BigOf(n) == Carried([i \in LimbIndex |-> IF i = 1 THEN n ELSE 0], 1, 0)

BigAdd(a, b) == Carried([i \in LimbIndex |-> a[i] + b[i]], 1, 0)

\* a * n for n < LimbBase
BigTimes(a, n) == Carried([i \in LimbIndex |-> a[i] * n], 1, 0)

\* a - b for a >= b, from limb i on with borrow br
RECURSIVE BigMinus(_, _, _, _)
BigMinus(a, b, i, br) ==
    IF i \notin LimbIndex THEN <<>>
    ELSE LET d == a[i] - b[i] - br
         IN  <<IF d < 0 THEN d + LimbBase ELSE d>>
                 \o BigMinus(a, b, i + 1, IF d < 0 THEN 1 ELSE 0)

BigLess(a, b) ==
    LET differ == {i \in LimbIndex : a[i] # b[i]}
    IN  differ # {} /\ a[Greatest(differ)] < b[Greatest(differ)]

\* Quotient and remainder of a by n <= LimbBase, from limb i down with remainder rem
RECURSIVE BigDivMod(_, _, _, _)
BigDivMod(a, n, i, rem) ==
    IF i = 0 THEN [q |-> <<>>, r |-> rem]
    ELSE LET cur == rem * LimbBase + a[i]
             rest == BigDivMod(a, n, i - 1, cur % n)
         IN  [q |-> Append(rest.q, cur \div n), r |-> rest.r]

\* The number of bits of a
BitLen(a) ==
    LET used == {i \in LimbIndex : a[i] # 0}
    IN  IF used = {} THEN 0
        ELSE 15 * (Greatest(used) - 1) + Cardinality({j \in 0..14 : 2^j <= a[Greatest(used)]})

\* a * 2^d
ShiftLeft(a, d) ==
    LET k == d \div 15
        r == d % 15
        limb(i) == IF i \in LimbIndex THEN a[i] ELSE 0
    IN  [i \in LimbIndex |->
            (limb(i - k) % 2^(15 - r)) * 2^r + limb(i - k - 1) \div 2^(15 - r)]

\* a \div 2^d as q, and how the bits shifted out compare with one half of the last
\* bit kept: half = -1 below, 0 equal, 1 above
ShiftRight(a, d) ==
    LET k == d \div 15
        r == d % 15
        limb(i) == IF i \in LimbIndex THEN a[i] ELSE 0
        top == IF r > 0 THEN limb(k + 1) % 2^r ELSE limb(k)
        mid == IF r > 0 THEN 2^(r - 1) ELSE 2^14
        below == \E i \in LimbIndex : i < (IF r > 0 THEN k + 1 ELSE k) /\ a[i] # 0
    IN  [ q |-> [i \in LimbIndex |->
                    limb(i + k) \div 2^r + (limb(i + k + 1) % 2^r) * 2^(15 - r)],
          half |-> IF d = 0 \/ top < mid THEN -1
                   ELSE IF top > mid \/ below THEN 1 ELSE 0 ]

\* a, or a and a little more when sticky, rounded to 53 significant bits, a tie to
\* the even neighbour
Round53(a, sticky) ==
    LET rounded(d, s) ==
            LET up == s.half > 0 \/ (s.half = 0 /\ (sticky \/ s.q[1] % 2 = 1))
            IN  ShiftLeft(BigAdd(s.q, BigOf(IF up THEN 1 ELSE 0)), d)
        cut(d) == IF d <= 0 THEN a ELSE rounded(d, ShiftRight(a, d))
    IN  cut(BitLen(a) - 53)

\* The binary64 number nearest to h / 3600
Nearest(h) ==
    LET rounded(d) == Round53(d.q, d.r # 0)
    IN  rounded(BigDivMod(ShiftLeft(BigOf(h), GridBits), 3600, 7, 0))

\* Half the unit in the last place of a
HalfUlp(a) == BitLen(a) - 54

\* The binary64 number an integer stands for
ToBinary64(n) ==
    LET moved(u, near) ==
            IF u = 0 THEN near
            ELSE IF u > 0 THEN BigAdd(near, ShiftLeft(BigOf(u), HalfUlp(near)))
            ELSE BigMinus(near, ShiftLeft(BigOf(-u), HalfUlp(near)), 1, 0)
        from(h) == moved(n - h * Grain, Nearest(h))
    IN  from((n + Grain \div 2) \div Grain)

\* The integer that stands for a binary64 number
FromBinary64(a) ==
    LET moved(h, near) ==
            IF a = near THEN h * Grain
            ELSE IF BigLess(near, a)
                 THEN h * Grain + ShiftRight(BigMinus(a, near, 1, 0), HalfUlp(near)).q[1]
            ELSE h * Grain - ShiftRight(BigMinus(near, a, 1, 0), HalfUlp(near)).q[1]
        from(h) == moved(h, Nearest(h))
        scaled(s) == from(s.q[1] + s.q[2] * LimbBase + (IF s.half >= 0 THEN 1 ELSE 0))
    IN  scaled(ShiftRight(BigTimes(a, 3600), GridBits))

\* sum(q): the floats are added from left to right, each sum rounded
RECURSIVE Sum(_, _)
Sum(q, acc) ==
    IF q = <<>> THEN acc ELSE Sum(Tail(q), Round53(BigAdd(acc, ToBinary64(Head(q))), FALSE))

\* sum(q) / len(q) for floats that are not negative
Mean(q) ==
    LET rounded(d) == FromBinary64(Round53(d.q, d.r # 0))
    IN  rounded(BigDivMod(Sum(q, BigOf(0)), Len(q), 7, 0))

RECURSIVE ConcatAll(_)
ConcatAll(q) == IF q = <<>> THEN <<>> ELSE Head(q) \o ConcatAll(Tail(q))

\* The characters of the texts sorted here, in code-point order
Ascii == " #%'()*+,-./0123456789:;<=>?@ABCDEFGHIJKLMNOPQRSTUVWXYZ_abcdefghijklmnopqrstuvwxyz"

CharRank(c) == FindAny(Ascii, c, 1)

\* a < b for strings
RECURSIVE StrLess(_, _)
StrLess(a, b) ==
    IF b = "" THEN FALSE
    ELSE IF a = "" THEN TRUE
    ELSE IF SubSeq(a, 1, 1) = SubSeq(b, 1, 1) THEN StrLess(Tail(a), Tail(b))
    ELSE CharRank(SubSeq(a, 1, 1)) < CharRank(SubSeq(b, 1, 1))

\* x put in its place in the sorted sequence q, unless it is there already
RECURSIVE InsertSorted(_, _)
InsertSorted(x, q) ==
    IF q = <<>> THEN <<x>>
    ELSE IF x = Head(q) THEN q
    ELSE IF StrLess(x, Head(q)) THEN <<x>> \o q
    ELSE <<Head(q)>> \o InsertSorted(x, Tail(q))

\* sorted(set(items))
RECURSIVE SortedSet(_)
SortedSet(items) ==
    IF items = <<>> THEN <<>> ELSE InsertSorted(Head(items), SortedSet(Tail(items)))

\* The records the loop of _combine_analyses does not skip
Kept(analyses) == SelectSeq(analyses, LAMBDA a : ~Truthy(Get(a, "error", None)))

\* list.extend(x) raises TypeError when x is a number
combine_raises(analyses) ==
    /\ Len(analyses) > 1
    /\ \E i \in 1..Len(Kept(analyses)) :
          \E key \in {"colors_detected", "brand_elements", "text_content"} :
              Get(Kept(analyses)[i], key, List(<<>>)).t \in {"num", "bool", "null"}

Digit(n) == SubSeq("0123456789", n + 1, n + 1)

\* ca.get("appropriate", True) of one record
appropriate_of(a) ==
    Truthy(Get(Get(a, "content_appropriateness", EmptyDict).v, "appropriate", Bool(TRUE)))

\* An appropriateness decided by the majority of the records
most_appropriate(kept) ==
    2 * Cardinality({i \in 1..Len(kept) : appropriate_of(kept[i])}) > Len(kept)

\* appropriate_all after the loop: every record kept is appropriate
all_appropriate(kept) == \A i \in 1..Len(kept) : appropriate_of(kept[i])

\* Defined when ~combine_raises(analyses); individual_analyses (the list handed
\* in, kept for diagnostics) is left out.
_combine_analyses(analyses) ==
    IF analyses = <<>> THEN _create_error_analysis("No analyses to combine")
    ELSE IF Len(analyses) = 1 THEN DictSet(analyses[1], "combined_analysis", Bool(FALSE))
    ELSE
    LET kept == Kept(analyses)
        field(key) == [i \in 1..Len(kept) |-> IterItems(Get(kept[i], key, List(<<>>)))]
        sub(i, key) == Get(kept[i], key, EmptyDict).v
        vq_scores == [i \in 1..Len(kept) |-> Float(Get(sub(i, "visual_quality"), "score", Num(0)))]
        oc_scores == [i \in 1..Len(kept) |->
                         Float(Get(sub(i, "overall_compliance"), "confidence", Num(0)))]
        logo_present == \E i \in 1..Len(kept) : Truthy(Get(kept[i], "logo_present", Bool(FALSE)))
        appropriate_all == all_appropriate(kept)
        concerns == ConcatAll([i \in 1..Len(kept) |->
                        Get(sub(i, "content_appropriateness"), "concerns", List(<<>>)).v])
        combined(avg_vq, avg_conf) ==
            [ colors_detected |-> List(SortedSet(ConcatAll(field("colors_detected")))),
              logo_present |-> Bool(logo_present),
              brand_elements |-> List(SortedSet(ConcatAll(field("brand_elements")))),
              text_content |-> List(SortedSet(ConcatAll(field("text_content")))),
              visual_quality |-> Dict([score |-> Num(avg_vq), issues |-> List(<<>>)]),
              accessibility |-> Dict([contrast_adequate |-> Bool(avg_vq >= H(60)),
                                      text_readable |-> Bool(avg_vq >= H(50))]),
              content_appropriateness |->
                  Dict([appropriate |-> Bool(appropriate_all), concerns |-> List(SortedSet(concerns))]),
              overall_compliance |->
                  Dict([compliant |-> Bool(avg_conf >= H(70) /\ appropriate_all),
                        confidence |-> Num(avg_conf),
                        summary |-> Str("Combined analysis of " \o Digit(Len(analyses))
                                            \o " images")]),
              combined_analysis |-> Bool(TRUE) ]
    IN  combined(IF vq_scores # <<>> THEN Mean(vq_scores) ELSE 0,
                 IF oc_scores # <<>> THEN Mean(oc_scores) ELSE 0)

\* analyze_multiple_images tags each record with its index before combining; an
\* exception of the combination is answered with the error record
analyze_multiple_images(analyses) ==
    LET tagged == [i \in 1..Len(analyses) |-> DictSet(analyses[i], "image_index", Num(i - 1))]
    IN  IF combine_raises(tagged)
        THEN _create_error_analysis("Multi-image analysis error: 'int' object is not iterable")
        ELSE _combine_analyses(tagged)

-----------------------------------------------------------------------------
(* Fallback Rule Engine: error_handling.FallbackDecisionEngine *)

Whitespace == " \t\n\r"

RECURSIVE lstrip(_)
lstrip(s) == IF s # "" /\ IsSubstr(SubSeq(s, 1, 1), Whitespace) THEN lstrip(Tail(s)) ELSE s

RECURSIVE rstrip(_)
rstrip(s) ==
    IF s # "" /\ IsSubstr(SubSeq(s, Len(s), Len(s)), Whitespace)
    THEN rstrip(SubSeq(s, 1, Len(s) - 1)) ELSE s

\* s.strip()
strip(s) == rstrip(lstrip(s))

\* The finding of one URL, <<>> when it has none
check_url(u) ==
    IF urlparse_raises(u)
    THEN <<"Target URL '" \o u \o "' is invalid or cannot be parsed">>
    ELSE IF ~InList(lower(urlparse_netloc(u)), APPROVED_DOMAINS)
    THEN <<"Target URL '" \o u
           \o "' uses non-approved domain (policy: approved LogicCart properties only)">>
    ELSE <<>>

\* target_url (stripped) first, then every non-blank page URL
_check_urls(t) ==
    LET urls == (IF strip(t.target_url) # "" THEN <<strip(t.target_url)>> ELSE <<>>)
                \o SelectSeq(t.page_urls, LAMBDA u : strip(u) # "")
    IN  ConcatAll([i \in 1..Len(urls) |-> check_url(urls[i])])

SuspiciousClaims == {"100% off", "free for life", "guaranteed lowest price",
                     "unlimited for free", "no terms apply"}
Competitors == {"shopify", "woocommerce", "magento", "bigcommerce"}

RECURSIVE JoinSpace(_)
JoinSpace(q) ==
    IF q = <<>> THEN ""
    ELSE Head(q) \o (IF Len(q) > 1 THEN " " ELSE "") \o JoinSpace(Tail(q))

_check_misleading_claims(t) ==
    LET fields == <<t.title, t.description, t.copy_en, t.copy_zh, t.notes>>
        blobs == SelectSeq(fields, LAMBDA v : strip(v) # "")
        text == JoinSpace([i \in 1..Len(blobs) |-> lower(strip(blobs[i]))])
    IN  IF blobs = <<>> THEN <<>>
        ELSE (IF \E c \in SuspiciousClaims : IsSubstr(c, text)
              THEN <<"Possible misleading claim detected in description/copy (requires manual verification)">>
              ELSE <<>>)
          \o (IF IsSubstr("watermark", text) \/ IsSubstr("stock photo", text)
              THEN <<"Possible watermark/stock photo concern (requires manual verification)">>
              ELSE <<>>)
          \o (IF \E c \in Competitors : IsSubstr(c, text)
              THEN <<"Possible competitor branding mentioned in description (visual verification required)">>
              ELSE <<>>)

\* title or description or dflt
TitleOf(t, dflt) ==
    IF t.title # "" THEN t.title ELSE IF t.description # "" THEN t.description ELSE dflt

\* PromptTemplates.format_email_template("banner_reject" | "banner_needs_info"),
\* the body cut down to greeting, narrative and bullets
_build_banner_email(decision, title, t, reasons) ==
    IF decision = "NEEDS_INFO"
    THEN [ subject |-> "Banner Request - Additional Information Required",
           body |-> "Dear " \o t.requester_name \o ",\nYour banner request '" \o title
                    \o "' requires clarification:\n" \o Bullets(reasons) ]
    ELSE [ subject |-> "Banner Request Rejected - " \o title,
           body |-> "Dear " \o t.requester_name \o ",\nYour banner request '" \o title
                    \o "' has been rejected for visual policy reasons:\n" \o Bullets(reasons) ]

analyze_banner_fallback(t) ==
    LET decided(reject, decision, reasons) ==
            [ decision |-> decision,
              reasons |-> Slice(reasons, 5),
              confidence |-> IF reject THEN H(90) ELSE Max(H(55), H(60)),
              summary |-> "Visual analysis unavailable - fallback checks executed.",
              email |-> _build_banner_email(decision, TitleOf(t, "Banner Request"), t, reasons),
              fallback_analysis |-> TRUE,
              visual_analysis_unavailable |-> TRUE,
              analysis_method |-> "rule_based_fallback" ]
        judged(found, reject) ==
            decided(reject, IF reject THEN "REJECT" ELSE "NEEDS_INFO",
                    IF ~reject /\ found = <<>>
                    THEN <<"Visual analysis unavailable - requires manual review">>
                    ELSE found)
        checked(found) ==
            judged(found, \E i \in 1..Len(found) : IsSubstr("non-approved domain", lower(found[i])))
    IN  checked(_check_urls(t) \o _check_misleading_claims(t))

generate_feature_needs_info(t) ==
    [ decision |-> "NEEDS_INFO",
      reasons |-> <<"Requires user stories, visual mockups (Figma), technical specs, and success metrics">>,
      confidence |-> H(100),
      email |-> [ subject |-> "Feature Request - Specification Required",
                  body |-> "Dear " \o t.requester_name
                           \o ",\nThank you for your feature request '" \o TitleOf(t, "Request")
                           \o "' (ID: " \o t.id \o "). To proceed, please provide: ..." ],
      fallback_analysis |-> FALSE,
      analysis_method |-> "policy_feature_guidance" ]

-----------------------------------------------------------------------------
(* Error Router: error_handling.ErrorHandler *)

ErrorTypes == {"bedrock_unavailable", "bedrock_timeout", "bedrock_quota_exceeded",
               "s3_access_error", "dynamodb_error", "sns_error", "network_error",
               "validation_error", "unknown_error"}

\* self._patterns, in the order the dict is written and searched
ErrorPatterns ==
    << [etype |-> "bedrock_unavailable",
        pats |-> <<"bedrock", "unavailable", "endpoint", "connection">>],
       [etype |-> "bedrock_timeout",
        pats |-> <<"timeout", "timed out", "request timeout", "read timeout">>],
       [etype |-> "bedrock_quota_exceeded",
        pats |-> <<"quota", "limit", "throttl", "rate limit", "exceeded">>],
       [etype |-> "s3_access_error",
        pats |-> <<"s3", "bucket", "access denied", "no such key", "forbidden">>],
       [etype |-> "dynamodb_error",
        pats |-> <<"dynamodb", "provisioned throughput", "conditional check failed">>],
       [etype |-> "sns_error", pats |-> <<"sns", "topic", "publish", "notification">>],
       [etype |-> "network_error",
        pats |-> <<"network", "dns", "connection refused", "unreachable">>],
       [etype |-> "validation_error", pats |-> <<"validation", "invalid", "schema", "format">>] >>

\* any(p in em for p in pats)
AnyPatternIn(pats, em) == \E i \in 1..Len(pats) : IsSubstr(pats[i], em)

\* The type of the first group of the sequence groups with a pattern in em
FirstMatch(groups, em) ==
    LET hits == {i \in 1..Len(groups) : AnyPatternIn(groups[i].pats, em)}
    IN  IF hits = {} THEN "unknown_error" ELSE groups[Least(hits)].etype

\* classify_error(error_message, exception); exception is the name of the
\* exception's type, "" when no exception is passed
classify_error(error_message, exception) ==
    LET em == lower(error_message)
        name == lower(exception)
    IN  IF exception # "" /\ (IsSubstr("throttl", em) \/ IsSubstr("quota", em))
        THEN "bedrock_quota_exceeded"
        ELSE IF exception # "" /\ IsSubstr("timeout", em) THEN "bedrock_timeout"
        ELSE IF exception # "" /\ (IsSubstr("bedrock", name) \/ IsSubstr("bedrock", em))
        THEN "bedrock_unavailable"
        ELSE FirstMatch(ErrorPatterns, em)

_manual_review(t, err) ==
    [ decision |-> "NEEDS_INFO",
      reasons |-> <<"System error: manual review required">>,
      confidence |-> 0,
      summary |-> "Manual review due to error: " \o err,
      email |-> [ subject |-> "Request Requires Manual Review - LogicCart",
                  body |-> "Dear " \o t.requester_name
                           \o ",\nWe encountered a technical issue while processing your request.\nTicket: "
                           \o t.id \o "\nDetails: " \o err ],
      error |-> TRUE,
      manual_review_required |-> TRUE ]

\* An error router that sends every error to manual review
handle_error_undispatched(error_type, error_message, t) ==
    _manual_review(t, IF error_message # "" THEN error_message ELSE error_type)

handle_error(error_type, error_message, t) ==
    LET request_type == upper(t.request_type)
    IN  IF error_type \in {"bedrock_unavailable", "bedrock_timeout", "bedrock_quota_exceeded"}
        THEN IF request_type = "NEW_BANNER"
             THEN DictSet(analyze_banner_fallback(t), "fallback_reason",
                          "Vision temporarily unavailable: " \o error_message)
             ELSE IF request_type = "NEW_FEATURE"
             THEN DictSet(generate_feature_needs_info(t), "fallback_reason",
                          "Vision not required for features; guidance generated. ("
                              \o error_message \o ")")
             ELSE _manual_review(t, "Unknown request type during Bedrock issue: " \o request_type)
        ELSE IF error_type = "s3_access_error"
        THEN _manual_review(t, "Unable to access required policy/resources: " \o error_message)
        ELSE IF error_type = "dynamodb_error"
        THEN _manual_review(t, "Database access error: " \o error_message)
        ELSE IF error_type = "sns_error"
        THEN [ decision |-> "NEEDS_INFO",
               reasons |-> <<"Decision completed but notification failed">>,
               confidence |-> H(50),
               summary |-> "SNS publish error: " \o error_message,
               email |-> None,
               sns_error |-> TRUE,
               manual_notification_required |-> TRUE ]
        ELSE _manual_review(t, IF error_message # "" THEN error_message ELSE error_type)

-----------------------------------------------------------------------------
(* Inputs of process_request *)

MaxAssets == 2     \* assets of a ticket
MaxUrls == 6       \* page URLs of a ticket

Rep(x, n) == [i \in 1..n |-> x]

UrlPool == {"https://logicart.com/sale", "https://www.logicart.com/",
            "https://bit.ly/xyz", "http://[non-approved domain"}

UrlLists ==
    {<<>>, <<"https://logicart.com/sale", "https://bit.ly/xyz">>}
        \cup {Rep(u, n) : u \in UrlPool, n \in {1, MaxUrls}}

AssetPool == {[s3Key |-> "uploads/hero.png", filename |-> "hero.png"],
              [filename |-> "draft.png"]}

AssetLists == UNION {[1..n -> AssetPool] : n \in 0..MaxAssets}

RequestTypes == {"NEW_BANNER", "NEW_FEATURE", "COPY_CHANGE"}

\* The dict get_ticket builds from the stored item (fields that only fill in
\* email text are left out)
MakeTicket(rtype, title, urls, assets) ==
    [ id |-> "T-1", request_type |-> rtype, title |-> title,
      description |-> "Homepage hero", page_urls |-> urls,
      target_url |-> IF urls # <<>> THEN urls[1] ELSE "",
      requester_email |-> "ann.lee@logicart.com", requester_name |-> "Ann",
      copy_en |-> "Shop now", copy_zh |-> "", notes |-> "", assets |-> assets ]

Titles == {"Spring banner", "Lunar Festival banner"}

Tickets ==
    {MakeTicket(rt, ti, u, a) : rt \in RequestTypes, ti \in Titles, u \in UrlLists,
                                a \in AssetLists}

\* Answers of the vision model
Reply(text) == [kind |-> "reply", text |-> text]

ModelReplies ==
    { Reply("{\"colors_detected\": [\"#5754ff\"], \"logo_present\": true, "
            \o "\"visual_quality\": {\"score\": 0.8, \"issues\": []}, "
            \o "\"content_appropriateness\": {\"appropriate\": true, \"concerns\": []}, "
            \o "\"overall_compliance\": {\"compliant\": true, \"confidence\": 0.9, "
            \o "\"summary\": \"ok\"}}"),
      Reply(Fence \o "json\n{\"visual_quality\": {\"score\": 0.6, "
            \o "\"issues\": [\"Slightly Blurry text\", \"\"]}, "
            \o "\"overall_compliance\": {\"confidence\": 0.7}}\n" \o Fence),
      Reply("{\"content_appropriateness\": {\"appropriate\": false, "
            \o "\"concerns\": [\"Competitor logo visible\", \"\", \"Watermark\"]}, "
            \o "\"overall_compliance\": {\"confidence\": 1.5}}"),
      Reply("{}"),
      Reply("{\"visual_quality\": \"good, purple with logo\"}"),
      Reply("{\"colors_detected\": 7, \"visual_quality\": {\"score\": 0.8}}"),
      Reply("No JSON here") }

VisionOutcomes ==
    ModelReplies \cup { [kind |-> "download_failed"],
                        [kind |-> "invoke_failed",
                         msg |-> "Bedrock invoke exception: Read timeout on endpoint"] }

-----------------------------------------------------------------------------
(* LogicCartAIAgent.process_request, step by step *)

NoResult == <<>>

InitLoc == [ticket |-> NoTicket, policy_text |-> "", reasons |-> <<>>, i |-> 1, image_urls |-> <<>>,
            analyses |-> <<>>, notified |-> FALSE]

InitStore == [agentDecision |-> <<>>, status |-> "pending", emailSent |-> <<>>]

InitProcess ==
    /\ pc = "get_ticket"
    /\ ticket \in Tickets
    /\ loc = InitLoc
    /\ result = NoResult
    /\ calls = [presign |-> 0, vision |-> 0]
    /\ store = InitStore
    /\ sns = <<>>
    /\ fn = "none" /\ arg = <<>> /\ out = <<>>

PureVars == <<fn, arg, out>>

\* except Exception as e: return self._needs_info([f"System error: ...", ...], 0.0)
SystemError(msg) ==
    _needs_info(<<"System error: " \o msg, "Manual review required">>, 0, NoEmail, "policy")

\* get_ticket returns the ticket
GetTicket ==
    /\ pc = "get_ticket"
    /\ loc' = [loc EXCEPT !.ticket = ticket]
    /\ pc' = "get_policy"
    /\ UNCHANGED <<ticket, result, calls, store, sns, PureVars>>

\* get_ticket raises (item missing, store error): process_request returns
\* the system-error decision without calling write_result
GetTicketFails ==
    /\ pc = "get_ticket"
    /\ result' = SystemError("Error retrieving ticket T-1: Ticket not found: T-1")
    /\ pc' = "done"
    /\ UNCHANGED <<ticket, loc, calls, store, sns, PureVars>>

\* policy = get_policy(POLICY_FILE_KEY)
GetPolicy ==
    /\ pc = "get_policy"
    /\ loc' = [loc EXCEPT !.policy_text = "# LogicCart banner policy"]
    /\ pc' = "dispatch"
    /\ UNCHANGED <<ticket, result, calls, store, sns, PureVars>>

GetPolicyFails ==
    /\ pc = "get_policy"
    /\ result' = SystemError("POLICY_BUCKET is not configured")
    /\ pc' = "done"
    /\ UNCHANGED <<ticket, loc, calls, store, sns, PureVars>>

\* A feature decision built without the guidance email
_process_feature_without_email(t) ==
    [ decision |-> "NEEDS_INFO",
      reasons |-> <<"New Feature requests require additional specification">>,
      confidence |-> H(100),
      analysis_method |-> "policy_template" ]

_process_feature(t) ==
    [ decision |-> "NEEDS_INFO",
      reasons |-> <<"New Feature requests require additional specification">>,
      confidence |-> H(100),
      email |-> _feature_email_from_policy(t),
      analysis_method |-> "policy_template" ]

ProcessFeature ==
    /\ pc = "dispatch" /\ ticket.request_type = "NEW_FEATURE"
    /\ result' = _process_feature(ticket)
    /\ pc' = "attach"
    /\ UNCHANGED <<ticket, loc, calls, store, sns, PureVars>>

UnknownType ==
    /\ pc = "dispatch" /\ ticket.request_type \notin {"NEW_BANNER", "NEW_FEATURE"}
    /\ result' = _needs_info(<<"Unknown request type: " \o ticket.request_type,
                               "Manual review required">>, 0, NoEmail, "policy")
    /\ pc' = "attach"
    /\ UNCHANGED <<ticket, loc, calls, store, sns, PureVars>>

\* A URL step that carries the reject findings on as reasons instead of returning
ValidateUrlsWithoutShortCircuit ==
    /\ pc = "dispatch" /\ ticket.request_type = "NEW_BANNER"
    /\ LET url_status == _validate_urls(ticket.page_urls)
       IN  loc' = [loc EXCEPT !.reasons = url_status.reject_reasons
                                              \o url_status.needs_info_reasons]
    /\ pc' = "assets"
    /\ UNCHANGED <<ticket, result, calls, store, sns, PureVars>>

\* _process_banner, step 1: URL validation, immediate REJECT on a reject finding
ValidateUrls ==
    /\ pc = "dispatch" /\ ticket.request_type = "NEW_BANNER"
    /\ LET url_status == _validate_urls(ticket.page_urls)
       IN  IF url_status.reject_reasons # <<>>
           THEN /\ result' = _reject(url_status.reject_reasons, H(90), "policy_url_check",
                                     NoTicket, <<>>)
                /\ pc' = "attach"
                /\ loc' = loc
           ELSE /\ loc' = [loc EXCEPT !.reasons = url_status.needs_info_reasons]
                /\ pc' = "assets"
                /\ result' = result
    /\ UNCHANGED <<ticket, calls, store, sns, PureVars>>

PresignedUrl(key) == "https://uploads.s3.amazonaws.com/" \o key \o "?X-Amz-Expires=300"

\* _run_visual_analysis, the asset loop: an asset without s3Key is passed over
SkipAsset ==
    /\ pc = "assets" /\ loc.i <= Len(ticket.assets)
    /\ "s3Key" \notin DOMAIN ticket.assets[loc.i]
    /\ loc' = [loc EXCEPT !.i = @ + 1]
    /\ UNCHANGED <<pc, ticket, result, calls, store, sns, PureVars>>

\* get_banner_image_url returns a URL, or None (bucket not configured, error)
ResolveAsset ==
    /\ pc = "assets" /\ loc.i <= Len(ticket.assets)
    /\ "s3Key" \in DOMAIN ticket.assets[loc.i]
    /\ \E ok \in BOOLEAN :
          loc' = [loc EXCEPT !.i = @ + 1,
                             !.image_urls = IF ok
                                 THEN Append(@, PresignedUrl(ticket.assets[loc.i].s3Key))
                                 ELSE @]
    /\ calls' = [calls EXCEPT !.presign = @ + 1]
    /\ UNCHANGED <<pc, ticket, result, store, sns, PureVars>>

\* visual is None: no asset resolved to a URL
NoImages ==
    /\ pc = "assets" /\ loc.i > Len(ticket.assets) /\ loc.image_urls = <<>>
    /\ result' = _needs_info(Append(loc.reasons, "No accessible banner image to analyze"),
                             H(60), NoEmail, "policy_visual_focus")
    /\ pc' = "attach"
    /\ UNCHANGED <<ticket, loc, calls, store, sns, PureVars>>

StartAnalysis ==
    /\ pc = "assets" /\ loc.i > Len(ticket.assets) /\ loc.image_urls # <<>>
    /\ pc' = "analyze"
    /\ UNCHANGED <<ticket, loc, result, calls, store, sns, PureVars>>

\* An image step that invokes the model a second time when the invocation failed
AnalyzeImageWithRetry ==
    /\ pc = "analyze" /\ Len(loc.analyses) < Len(loc.image_urls)
    /\ \E o \in VisionOutcomes :
          /\ loc' = [loc EXCEPT !.analyses = Append(@, analyze_image_from_url(o))]
          /\ calls' = [calls EXCEPT !.vision = CASE o.kind = "download_failed" -> @
                                                 [] o.kind = "invoke_failed" -> @ + 2
                                                 [] OTHER -> @ + 1]
    /\ UNCHANGED <<pc, ticket, result, store, sns, PureVars>>

\* analyze_image_from_url for the next image URL, in order
AnalyzeImage ==
    /\ pc = "analyze" /\ Len(loc.analyses) < Len(loc.image_urls)
    /\ \E o \in VisionOutcomes :
          /\ loc' = [loc EXCEPT !.analyses = Append(@, analyze_image_from_url(o))]
          /\ calls' = [calls EXCEPT !.vision = IF o.kind = "download_failed" THEN @ ELSE @ + 1]
    /\ UNCHANGED <<pc, ticket, result, store, sns, PureVars>>

\* presign calls of _get_image_urls_section while an email is rendered
EmailPresigns(t) == Cardinality({i \in 1..Len(t.assets) : "s3Key" \in DOMAIN t.assets[i]})

\* _process_banner, step 2: the interpreter on the (combined) record
Interpret ==
    /\ pc = "analyze" /\ Len(loc.analyses) = Len(loc.image_urls)
    /\ LET visual == IF Len(loc.analyses) = 1 THEN loc.analyses[1]
                     ELSE analyze_multiple_images(loc.analyses)
           returned(d) ==
               IF Raised(d)
               THEN /\ result' = SystemError(d.raised)
                    /\ pc' = "done"
                    /\ calls' = calls
               ELSE /\ result' = d
                    /\ pc' = "attach"
                    /\ calls' = [calls EXCEPT !.presign = @ + EmailPresigns(ticket)]
       IN  returned(_visual_policy_decision(ticket, visual, loc.reasons, loc.image_urls))
    /\ UNCHANGED <<ticket, loc, store, sns, PureVars>>

\* result["ticket_id"] = ..., result["request_type"] = ..., ...
AttachMetadata ==
    /\ pc = "attach"
    /\ result' = DictSet(DictSet(DictSet(DictSet(result,
                     "ticket_id", ticket.id),
                     "request_type", ticket.request_type),
                     "ai_analysis", TRUE),
                     "requester_email", ticket.requester_email)
    /\ pc' = "update_item"
    /\ UNCHANGED <<ticket, loc, calls, store, sns, PureVars>>

-----------------------------------------------------------------------------
(* tools.write_result, step by step *)

StatusOf(decision) ==
    IF decision = "APPROVE" THEN "approved"
    ELSE IF decision = "REJECT" THEN "rejected" ELSE "needs_info"

\* table.update_item(agentDecision, updatedAt, status) succeeds
UpdateItem ==
    /\ pc = "update_item"
    /\ store' = [store EXCEPT
                    !.agentDecision = [ decision |-> result.decision,
                                        reasons |-> result.reasons,
                                        confidence |-> result.confidence,
                                        analysisMethod |-> result.analysis_method ],
                    !.status = StatusOf(result.decision)]
    /\ pc' = "notify"
    /\ UNCHANGED <<ticket, loc, result, calls, sns, PureVars>>

\* A failed update that is logged and followed by the notification all the same
UpdateItemFailsThenNotifies ==
    /\ pc = "update_item"
    /\ pc' = "notify"
    /\ UNCHANGED <<ticket, loc, result, calls, store, sns, PureVars>>

\* table.update_item raises: write_result logs and returns False
UpdateItemFails ==
    /\ pc = "update_item"
    /\ pc' = "done"
    /\ UNCHANGED <<ticket, loc, result, calls, store, sns, PureVars>>

_generate_default_subject(ticket_id, decision) ==
    CASE decision = "APPROVE" -> "LogicCart Request - Approved: " \o ticket_id
      [] decision = "REJECT" -> "LogicCart Request - Rejected: " \o ticket_id
      [] decision = "NEEDS_INFO" ->
            "LogicCart Request - Additional Information Required: " \o ticket_id
      [] OTHER -> "LogicCart Request Update: " \o ticket_id

_generate_default_body(ticket_id, decision, r) ==
    "Your LogicCart website change request: " \o decision \o "\nRequest ID: " \o ticket_id
        \o (IF r.reasons # <<>> THEN "\n\nReasons:\n" \o Bullets(Slice(r.reasons, 5)) ELSE "")

\* The message _send_notification publishes for a result
NotificationOf(ticket_id, r) ==
    LET email == Get(r, "email", NoEmail)
        custom == email # NoEmail /\ email.subject # "" /\ email.body # ""
        subject == IF custom THEN email.subject
                   ELSE _generate_default_subject(ticket_id, r.decision)
    IN  [ subject |-> SubSeq(subject, 1, Min(100, Len(subject))),
          body |-> IF custom THEN email.body
                   ELSE _generate_default_body(ticket_id, r.decision, r),
          decision |-> r.decision,
          requesterEmail |-> Get(r, "requester_email", "") ]

\* _send_notification: SNS_TOPIC_ARN unset, publish raises, or publish succeeds
SendNotification ==
    /\ pc = "notify"
    /\ \E o \in {"unconfigured", "failed", "published"} :
          IF o = "published"
          THEN /\ sns' = Append(sns, NotificationOf(ticket.id, result))
               /\ loc' = [loc EXCEPT !.notified = TRUE]
               /\ pc' = "email_sent"
          ELSE /\ pc' = "done"
               /\ UNCHANGED <<sns, loc>>
    /\ UNCHANGED <<ticket, result, calls, store, PureVars>>

\* table.update_item(emailSent) after a successful publish
RecordEmailSent ==
    /\ pc = "email_sent"
    /\ store' = [store EXCEPT
                    !.emailSent = [ subject |-> IF "email" \in DOMAIN result
                                                THEN result.email.subject
                                                ELSE "LogicCart Request Update: " \o ticket.id,
                                    recipient |-> Get(result, "requester_email", ""),
                                    status |-> result.decision ]]
    /\ pc' = "done"
    /\ UNCHANGED <<ticket, loc, result, calls, sns, PureVars>>

RecordEmailSentFails ==
    /\ pc = "email_sent"
    /\ pc' = "done"
    /\ UNCHANGED <<ticket, loc, result, calls, store, sns, PureVars>>

NextProcess ==
    \/ GetTicket \/ GetTicketFails \/ GetPolicy \/ GetPolicyFails
    \/ ProcessFeature \/ UnknownType \/ ValidateUrls
    \/ SkipAsset \/ ResolveAsset \/ NoImages \/ StartAnalysis \/ AnalyzeImage \/ Interpret
    \/ AttachMetadata
    \/ UpdateItem \/ UpdateItemFails \/ SendNotification
    \/ RecordEmailSent \/ RecordEmailSentFails

Init == InitProcess
Next == NextProcess
Spec == Init /\ [][Next]_vars

-----------------------------------------------------------------------------
(* The components called directly: pc names the component, fn the call made *)

IdleProcess ==
    /\ loc = InitLoc /\ result = NoResult /\ calls = [presign |-> 0, vision |-> 0]
    /\ store = InitStore /\ sns = <<>>

ProcessVars == <<loc, result, calls, store, sns>>

Absent == [t |-> "absent"]

\* The dict with the keys of r whose value is not Absent
MkObj(r) == [k \in {x \in DOMAIN r : r[x].t # "absent"} |-> r[k]]

(* Response Normalizer on the objects json.loads may hand it *)

VisualQualityOpts ==
    {Absent, Str("good")}
        \cup { Dict(MkObj([score |-> sc, issues |-> iss])) :
                 sc \in {Absent, Num(H(-20)), Num(H(150)), Str("high"), Bool(TRUE)},
                 iss \in {Absent, None, List(<<"blur">>)} }

ContentOpts ==
    {Absent}
        \cup { Dict(MkObj([appropriate |-> a, concerns |-> c])) :
                 a \in {Absent, Str("no")}, c \in {Absent, None, List(<<"Watermark">>)} }

OverallOpts ==
    {Absent}
        \cup { Dict(MkObj([compliant |-> c, confidence |-> f, summary |-> m])) :
                 c \in {Absent, Bool(TRUE)},
                 f \in {Absent, Num(H(150)), Num(H(-10)), Str("high")},
                 m \in {Absent, Num(5)} }

JsonObjects ==
    { MkObj([ colors_detected |-> cd, logo_present |-> lp, brand_elements |-> be,
              visual_quality |-> vq, accessibility |-> acc,
              content_appropriateness |-> ca, overall_compliance |-> oc ]) :
        cd \in {Absent, None, Str("purple")},
        lp \in {Absent, Str("yes")},
        be \in {Absent, List(<<"logo">>)},
        vq \in VisualQualityOpts,
        acc \in {Absent, Dict([contrast_adequate |-> Str("yes")])},
        ca \in ContentOpts,
        oc \in OverallOpts }

InitNorm ==
    /\ pc = "normalizer" /\ ticket = NoTicket /\ IdleProcess
    /\ fn = "none" /\ arg \in JsonObjects /\ out = <<>>

\* _validate_analysis_structure(parsed)
CallValidate ==
    /\ pc = "normalizer" /\ fn = "none"
    /\ fn' = "validated"
    /\ out' = IF validate_raises(arg) THEN Raise("TypeError")
              ELSE _validate_analysis_structure(arg)
    /\ UNCHANGED <<pc, ticket, ProcessVars, arg>>

\* the record returned is normalized once more
CallValidateAgain ==
    /\ pc = "normalizer" /\ fn = "validated" /\ ~Raised(out)
    /\ fn' = "revalidated"
    /\ out' = [ first |-> out,
                again |-> IF validate_raises(out) THEN Raise("TypeError")
                          ELSE _validate_analysis_structure(out) ]
    /\ UNCHANGED <<pc, ticket, ProcessVars, arg>>

NextNorm == CallValidate \/ CallValidateAgain

SpecNorm == InitNorm /\ [][NextNorm]_vars

(* Response Parser on the texts the model may answer with *)

ParsePrefixes == {"", Fence \o "json\n", "Here is the analysis:\n", "{ "}

ParseBodies ==
    { "",
      "The banner is purple with the LogicCart logo",
      "{}",
      "{\"colors_detected\": [\"#5754ff\"], \"logo_present\": true, "
          \o "\"visual_quality\": {\"score\": 0.8, \"issues\": []}, "
          \o "\"overall_compliance\": {\"compliant\": true, \"confidence\": 0.9}}",
      "{\"visual_quality\": {\"score\": 0.8",
      "{\"visual_quality\": \"good\", \"colors_detected\": [\"purple\"]}",
      "{\"visual_quality\": {\"score\": \"high\", \"issues\": \"none\"}, "
          \o "\"overall_compliance\": {\"confidence\": null, \"summary\": 3}}",
      "{\"overall_compliance\": {\"summary\": \"logo inside } brace\"}}",
      "{not json}",
      "{\"accessibility\": [1], \"logo_present\": 1}",
      "{\"content_appropriateness\": {\"appropriate\": 0, \"concerns\": null},}",
      "{\"content_appropriateness\": {\"appropriate\": false}} "
          \o "{\"visual_quality\": {\"score\": 0.1}}" }

ParseSuffixes == {"", "\n" \o Fence, " }", " Hope this helps."}

ParseTexts == {p \o b \o x : p \in ParsePrefixes, b \in ParseBodies, x \in ParseSuffixes}

InitParse ==
    /\ pc = "parser" /\ ticket = NoTicket /\ IdleProcess
    /\ fn = "none" /\ arg \in ParseTexts /\ out = <<>>

\* _parse_analysis_response(analysis_text)
CallParseAnalysisResponse ==
    /\ pc = "parser" /\ fn = "none"
    /\ fn' = "_parse_analysis_response"
    /\ out' = _parse_analysis_response(arg)
    /\ UNCHANGED <<pc, ticket, ProcessVars, arg>>

NextParse == CallParseAnalysisResponse

SpecParse == InitParse /\ [][NextParse]_vars

(* Multi-image combination on lists of per-image records *)

MaxImages == 3     \* records in one list handed to _combine_analyses

ImageRecord(sc, cf, colors, logo, ap, concerns) ==
    [ colors_detected |-> List(colors),
      logo_present |-> Bool(logo),
      brand_elements |-> List(IF logo THEN <<"LogicCart logo">> ELSE <<>>),
      text_content |-> List(IF ap THEN <<"Shop now">> ELSE <<"Shop now", "Sale">>),
      visual_quality |-> Dict([score |-> Num(H(sc)), issues |-> List(<<>>)]),
      accessibility |-> Dict([contrast_adequate |-> Bool(TRUE), text_readable |-> Bool(TRUE)]),
      content_appropriateness |-> Dict([appropriate |-> Bool(ap), concerns |-> List(concerns)]),
      overall_compliance |->
          Dict([compliant |-> Bool(ap), confidence |-> Num(H(cf)), summary |-> Str("ok")]) ]

ImageRecords ==
    { ImageRecord(20, 60, <<"#5754ff">>, TRUE, TRUE, <<>>),
      ImageRecord(30, 70, <<"#00ff00", "#5754ff">>, FALSE, TRUE, <<>>),
      ImageRecord(40, 80, <<>>, FALSE, TRUE, <<>>),
      ImageRecord(90, 90, <<"#ffffff">>, TRUE, FALSE,
                  <<"Watermark", "Competitor logo visible">>),
      _create_error_analysis("Image download failed: empty payload") }

ImageRecordLists == UNION {[1..n -> ImageRecords] : n \in 2..MaxImages}

\* _combine_analyses(analyses), the exception of list.extend included
combine(analyses) ==
    IF combine_raises(analyses) THEN Raise("TypeError: object is not iterable")
    ELSE _combine_analyses(analyses)

InitCombine ==
    /\ pc = "combiner" /\ ticket = NoTicket /\ IdleProcess
    /\ fn = "none" /\ arg \in ImageRecordLists /\ out = <<>>

\* _combine_analyses on the list and on the same records in another order
CallCombineReordered ==
    /\ pc = "combiner" /\ fn = "none"
    /\ \E order \in Permutations(1..Len(arg)) :
          out' = [ given |-> combine(arg),
                   reordered |-> combine([i \in 1..Len(arg) |-> arg[order[i]]]),
                   order |-> order ]
    /\ fn' = "reordered"
    /\ UNCHANGED <<pc, ticket, ProcessVars, arg>>

\* _combine_analyses on three records, and on the combination of the first two
\* with the third
CallCombineNested ==
    /\ pc = "combiner" /\ fn = "none" /\ Len(arg) = 3
    /\ out' = [ flat |-> combine(arg),
                nested |-> combine(<<combine(<<arg[1], arg[2]>>), arg[3]>>) ]
    /\ fn' = "nested"
    /\ UNCHANGED <<pc, ticket, ProcessVars, arg>>

NextCombine == CallCombineReordered \/ CallCombineNested

SpecCombine == InitCombine /\ [][NextCombine]_vars

(* Vision Policy Interpreter on normalized records *)

MaxPrior == 6      \* URL reasons collected before the interpreter runs
MaxConcerns == 6   \* concerns in one record

Visuals ==
    { [ colors_detected |-> List(cd), logo_present |-> Bool(FALSE),
        brand_elements |-> List(<<>>), text_content |-> List(<<>>),
        visual_quality |-> Dict([score |-> Num(H(sc)), issues |-> List(iss)]),
        accessibility |-> Dict([contrast_adequate |-> Bool(TRUE), text_readable |-> Bool(TRUE)]),
        content_appropriateness |-> Dict([appropriate |-> Bool(ap), concerns |-> List(cn)]),
        overall_compliance |-> Dict([compliant |-> Bool(co), confidence |-> Num(H(cf)),
                                     summary |-> Str("ok")]) ] :
        cd \in {<<>>, <<"#5754ff">>, <<"#00ff00">>},
        sc \in {30, 35, 40, 45, 50, 150},
        iss \in {<<>>, <<"Heavy JPEG Compression">>, <<"Busy layout">>},
        ap \in BOOLEAN,
        cn \in {<<>>, <<"", "Competitor logo visible">>, Rep("Offensive imagery", MaxConcerns)},
        co \in BOOLEAN,
        cf \in {-10, 65, 75, 95, 150} }

\* Records of answers that did not parse
FallbackVisuals ==
    { _parse_analysis_response(text) :
        text \in {"No JSON here", "A purple banner with the LogicCart logo",
                  "{\"colors_detected\": [\"#5754FF\"], \"visual_quality\": {\"score\": 0.9"} }

PriorReasons ==
    { Rep("URL might be an external redirect: https://www.logicart.com/", n) :
        n \in {0, 1} \cup ((MaxPrior - 2)..MaxPrior) }

InitInterp ==
    /\ pc = "interpreter" /\ IdleProcess
    /\ ticket \in {MakeTicket("NEW_BANNER", ti, <<"https://logicart.com/sale">>,
                              <<[s3Key |-> "uploads/hero.png", filename |-> "hero.png"]>>) :
                      ti \in Titles}
    /\ fn = "none" /\ out = <<>>
    /\ arg \in [visual : Visuals \cup FallbackVisuals, prior_reasons : PriorReasons]

CallVisualPolicyDecision ==
    /\ pc = "interpreter" /\ fn = "none"
    /\ fn' = "_visual_policy_decision"
    /\ out' = _visual_policy_decision(ticket, arg.visual, arg.prior_reasons,
                                      <<PresignedUrl("uploads/hero.png")>>)
    /\ UNCHANGED <<pc, ticket, ProcessVars, arg>>

NextInterp == CallVisualPolicyDecision

SpecInterp == InitInterp /\ [][NextInterp]_vars

(* Fallback Rule Engine and Error Router *)

FallbackTexts == {"Homepage hero", "Everything 100% OFF, Free For Life",
                  "Stock photo with watermark, as on Shopify", ""}

FallbackTickets ==
    { [MakeTicket(rt, "Spring banner", u, <<>>) EXCEPT !.description = d] :
        rt \in {"NEW_BANNER", "new_feature", "COPY_CHANGE"}, u \in UrlLists,
        d \in FallbackTexts }

ErrorMessages == {"", "Read timeout on endpoint"}

InitFallback ==
    /\ pc = "fallback" /\ IdleProcess
    /\ ticket \in FallbackTickets
    /\ fn = "none" /\ arg = <<>> /\ out = <<>>

CallAnalyzeBannerFallback ==
    /\ pc = "fallback" /\ fn = "none"
    /\ fn' = "analyze_banner_fallback"
    /\ out' = analyze_banner_fallback(ticket)
    /\ UNCHANGED <<pc, ticket, ProcessVars, arg>>

CallHandleError ==
    /\ pc = "fallback" /\ fn = "none"
    /\ \E et \in ErrorTypes, msg \in ErrorMessages :
          /\ arg' = [error_type |-> et, error_message |-> msg]
          /\ out' = handle_error(et, msg, ticket)
    /\ fn' = "handle_error"
    /\ UNCHANGED <<pc, ticket, ProcessVars>>

NextFallback == CallAnalyzeBannerFallback \/ CallHandleError

SpecFallback == InitFallback /\ [][NextFallback]_vars

(* classify_error on messages put together from two phrases *)

MessagePhrases == {"", "Bedrock", "ThrottlingException", "Quota", "Read timeout",
                   "connection refused", "S3 bucket", "DynamoDB", "SNS publish",
                   "network unreachable", "invalid schema", "rate limit", "disk full"}

ErrorMessagesToClassify ==
    {a \o (IF a # "" /\ b # "" THEN " " ELSE "") \o b : a, b \in MessagePhrases}

ExceptionNames == {"", "ClientError", "BedrockRuntimeError"}

InitClassify ==
    /\ pc = "classifier" /\ ticket = NoTicket /\ IdleProcess
    /\ fn = "none" /\ out = <<>>
    /\ arg \in [error_message : ErrorMessagesToClassify, exception : ExceptionNames]

CallClassifyError ==
    /\ pc = "classifier" /\ fn = "none"
    /\ fn' = "classify_error"
    /\ out' = classify_error(arg.error_message, arg.exception)
    /\ UNCHANGED <<pc, ticket, ProcessVars, arg>>

NextClassify == CallClassifyError

SpecClassify == InitClassify /\ [][NextClassify]_vars

(* _validate_urls on short lists of page URLs *)

MaxUrlList == 2    \* URLs in one list handed to _validate_urls

UrlsToValidate == {"", "https://logicart.com/sale", "HTTPS://Shop.LogicArt.com/cart",
                   "https://www.logicart.com/", "https://redirect.logicart.com/go",
                   "https://notlogicart.com/", "https://bit.ly/xyz",
                   "//cdn.example.org/banner", "logicart.com/sale",
                   "mailto:web@logicart.com", "https://", "http://[non-approved domain"}

InitUrls ==
    /\ pc = "validator" /\ ticket = NoTicket /\ IdleProcess
    /\ fn = "none" /\ out = <<>>
    /\ arg \in {[urls |-> q] : q \in UNION {[1..n -> UrlsToValidate] : n \in 0..MaxUrlList}}

CallValidateUrls ==
    /\ pc = "validator" /\ fn = "none"
    /\ fn' = "_validate_urls"
    /\ out' = _validate_urls(arg.urls)
    /\ UNCHANGED <<pc, ticket, ProcessVars, arg>>

NextUrls == CallValidateUrls

SpecUrls == InitUrls /\ [][NextUrls]_vars

-----------------------------------------------------------------------------
(* AI Preview lambda: ai-analysis/lambda_function.py *)

IsStr(x) == x.t = "str"

\* {x} inside an f-string, for the strings and None the requests hold
Format(x) == IF x.t = "str" THEN x.v ELSE "None"

\* s.split(): the words between runs of whitespace
RECURSIVE split(_)
split(s) ==
    LET rest(t, stop) ==
            IF t = "" THEN <<>>
            ELSE IF stop = 0 THEN <<t>>
            ELSE <<SubSeq(t, 1, stop - 1)>> \o split(SubSeq(t, stop, Len(t)))
        words(t) == rest(t, FindAny(t, Whitespace, 1))
    IN  words(lstrip(s))

Range(q) == {q[i] : i \in 1..Len(q)}

AnyIn(patterns, text) == \E i \in 1..Len(patterns) : IsSubstr(patterns[i], text)

SystemEnforcedPatterns ==
    <<"alt text", "file size", "image dimensions", "dimension validation", "required field",
      "form validation", "upload validation", "wcag guidelines", "accessibility guidelines",
      "mobile responsive", "desktop and mobile", "load quickly", "page performance",
      "call-to-action button", "prominently placed">>

RECURSIVE filter_system_enforced_items(_)
filter_system_enforced_items(acceptance_criteria) ==
    IF acceptance_criteria = <<>> THEN <<>>
    ELSE LET kept(criterion) ==
                 IF criterion = "" \/ AnyIn(SystemEnforcedPatterns, lower(criterion))
                 THEN <<>> ELSE <<criterion>>
         IN  kept(strip(Head(acceptance_criteria)))
                 \o filter_system_enforced_items(Tail(acceptance_criteria))

AccessibilityKeywords ==
    <<"accessibility", "accessible", "screen reader", "keyboard", "contrast",
      "alt text quality", "aria">>
PerformanceKeywords ==
    <<"performance", "load", "speed", "optimization", "impact", "quickly", "efficient">>
FunctionalityKeywords ==
    <<"functionality", "feature", "interaction", "workflow", "integration", "behavior",
      "click", "navigation", "user action">>
ContentKeywords ==
    <<"content", "copy", "text", "messaging", "brand voice", "localization", "seo",
      "headline", "description">>
VisualKeywords ==
    <<"display", "layout", "design", "visual", "hierarchy", "placement", "banner", "image",
      "color", "font", "responsive", "mobile", "desktop">>

categorize_acceptance_criterion(criterion) ==
    LET in_category(criterion_lower) ==
            IF AnyIn(AccessibilityKeywords, criterion_lower) THEN "accessibility"
            ELSE IF AnyIn(PerformanceKeywords, criterion_lower) THEN "performance"
            ELSE IF AnyIn(FunctionalityKeywords, criterion_lower) THEN "functionality"
            ELSE IF AnyIn(ContentKeywords, criterion_lower) THEN "content"
            ELSE IF AnyIn(VisualKeywords, criterion_lower) THEN "visual"
            ELSE "functionality"
    IN  in_category(lower(criterion))

Categories == {"visual", "content", "functionality", "performance", "accessibility"}

\* The criteria of each category that has any
categorize_criteria_by_type(acceptance_criteria) ==
    LET of(k) == SelectSeq(acceptance_criteria,
                           LAMBDA c : categorize_acceptance_criterion(c) = k)
    IN  Dict([k \in {c \in Categories : of(c) # <<>>} |-> List(of(k))])

\* The list of criteria for a change type; description[:100] raises on a
\* description that is no string
get_fallback_business_criteria(change_type, ticket_summary) ==
    LET page_area == Get(ticket_summary, "pageArea", Str("specified page area"))
        description == Get(ticket_summary, "description", Str("described requirements"))
        base_criteria(d) ==
            CASE change_type = Str("New Banner") ->
                    << "Implementation matches the specific requirements described: "
                           \o SubSeq(d, 1, Min(100, Len(d)))
                           \o (IF Len(d) > 100 THEN "..." ELSE ""),
                       "Banner is properly integrated into the " \o Format(page_area)
                           \o " as specified",
                       "Visual design supports the campaign objectives outlined in the request",
                       "Content presentation aligns with the provided specifications and timeline" >>
              [] change_type = Str("Content Update") ->
                    << "Content aligns with brand voice and messaging guidelines",
                       "Copy is clear, accurate, and effectively communicates intended message",
                       "Updates maintain consistency with existing site content and style",
                       "Localization maintains meaning and cultural appropriateness where applicable" >>
              [] change_type = Str("Bug Fix") ->
                    << "Issue is resolved and expected functionality is restored",
                       "Fix works consistently across different browsers and devices",
                       "User experience is improved without introducing new problems",
                       "Solution addresses root cause rather than just symptoms" >>
              [] change_type = Str("New Feature") ->
                    << "Feature specification requires detailed user workflow documentation and wireframes",
                       "Technical implementation approach and system architecture need comprehensive analysis",
                       "Business value proposition and measurable success criteria must be clearly defined",
                       "Integration points with existing systems require detailed planning and approval" >>
              [] change_type = Str("SEO Update") ->
                    << "SEO improvements are implemented without breaking existing functionality",
                       "Content structure supports search engine understanding",
                       "User experience is maintained or enhanced alongside SEO benefits",
                       "Technical SEO implementation follows current best practices" >>
              [] OTHER ->
                    << "Implementation meets business requirements and user needs",
                       "Changes integrate well with existing functionality and workflows",
                       "User experience is maintained or improved",
                       "Solution follows established design patterns and best practices" >>
    IN  IF ~IsStr(description)
        THEN Raise("TypeError: 'NoneType' object is not subscriptable")
        ELSE List(base_criteria(description.v))

SkippedByValidation ==
    <<"alt text is provided", "alt text for images", "file size", "dimension validation",
      "required field", "form validation", "upload validation">>

StopWords == {"must", "should", "will", "with", "that", "this", "have"}

\* overlap > threshold for overlap = |a & b| / |a | b|, threshold in tenths
Overlaps(a, b, tenths) ==
    /\ a # {} /\ b # {}
    /\ 10 * Cardinality(a \cap b) > tenths * Cardinality(a \cup b)

\* The first loop of apply_quality_validation_and_fallback: the criteria kept
RECURSIVE clean_criteria(_, _, _)
clean_criteria(acceptance_criteria, cleaned_criteria, seen_keywords) ==
    IF acceptance_criteria = <<>> THEN cleaned_criteria
    ELSE LET rest == Tail(acceptance_criteria)
             judged(criterion, key_words) ==
                 IF key_words # {} /\ \A existing \in seen_keywords :
                                         ~Overlaps(key_words, existing, 6)
                 THEN clean_criteria(rest, Append(cleaned_criteria, criterion),
                                     seen_keywords \cup {key_words})
                 ELSE clean_criteria(rest, cleaned_criteria, seen_keywords)
             read(criterion, criterion_lower) ==
                 IF criterion = "" \/ AnyIn(SkippedByValidation, criterion_lower)
                 THEN clean_criteria(rest, cleaned_criteria, seen_keywords)
                 ELSE judged(criterion, {w \in Range(split(criterion_lower)) :
                                            Len(w) > 3 /\ w \notin StopWords})
             stripped(criterion) == read(criterion, lower(criterion))
         IN  stripped(strip(Head(acceptance_criteria)))

\* The last loop of apply_quality_validation_and_fallback: fallback criteria are
\* added up to four in all, unless they repeat one already there
RECURSIVE add_fallback_criteria(_, _)
add_fallback_criteria(fallback_criteria, final_criteria) ==
    IF fallback_criteria = <<>> \/ Len(final_criteria) >= 4 THEN final_criteria
    ELSE LET added(fallback, fallback_words) ==
                 IF \E i \in 1..Len(final_criteria) :
                       Overlaps(fallback_words, Range(split(lower(final_criteria[i]))), 4)
                 THEN final_criteria ELSE Append(final_criteria, fallback)
             next(fallback) == added(fallback, Range(split(lower(fallback))))
         IN  add_fallback_criteria(Tail(fallback_criteria), next(Head(fallback_criteria)))

\* [acceptance_criteria, used_fallback, reason], or what get_fallback_business_criteria raised
apply_quality_validation_and_fallback(acceptance_criteria, change_type, ticket_summary) ==
    LET with_fallback(cleaned_criteria, fallback_criteria) ==
            IF Raised(fallback_criteria) THEN fallback_criteria
            ELSE IF acceptance_criteria = <<>>
            THEN [ acceptance_criteria |-> Slice(fallback_criteria.v, 4), used_fallback |-> TRUE,
                   reason |-> "No criteria provided" ]
            ELSE [ acceptance_criteria |->
                       add_fallback_criteria(fallback_criteria.v, Slice(cleaned_criteria, 2)),
                   used_fallback |-> TRUE,
                   reason |-> "Insufficient quality criteria: " \o Digit(Len(cleaned_criteria))
                                  \o " good criteria found" ]
        validated(cleaned_criteria) ==
            IF acceptance_criteria # <<>> /\ Len(cleaned_criteria) >= 3
            THEN [ acceptance_criteria |-> Slice(cleaned_criteria, 5), used_fallback |-> FALSE,
                   reason |-> "" ]
            ELSE with_fallback(cleaned_criteria,
                               get_fallback_business_criteria(change_type, ticket_summary))
    IN  validated(clean_criteria(acceptance_criteria, <<>>, {}))

Issue(field, severity, note) ==
    Dict([field |-> Str(field), severity |-> Str(severity), note |-> Str(note)])

NewFeatureNote ==
    "Note: New Feature requests typically require additional technical documentation "
        \o "and internal review before implementation."

NewFeatureReminder ==
    NewFeatureNote \o " Consider providing user workflows, wireframes, and integration "
        \o "details for smoother development."

SummaryFields ==
    {"requesterName", "changeType", "pageArea", "description", "pageUrls", "language",
     "targetLaunchDate", "department", "copyEn", "copyZh"}

\* The ticket summary lambda_handler builds from the form data
TicketSummary(form_data) ==
    [k \in SummaryFields |->
        Get(form_data, k, IF k = "pageUrls" THEN List(<<>>) ELSE Str(""))]

Blank(x) == strip(x.v) = ""

\* The answer put together from the form alone when the model's text is no JSON
generate_field_validation_fallback(ticket_summary, change_type) ==
    LET required(field, note) ==
            IF Blank(ticket_summary[field]) THEN <<Issue(field, "high", note)>> ELSE <<>>
        page_urls == ticket_summary.pageUrls
        no_copy == Blank(ticket_summary.copyEn) /\ Blank(ticket_summary.copyZh)
        general ==
            required("requesterName",
                     "Requester name is required for ticket assignment and communication")
            \o required("changeType",
                        "Request type is required to determine review process and acceptance criteria")
            \o required("pageArea",
                        "Impacted page area is required to understand implementation scope and impact")
            \o required("description",
                        "Description is required to understand what needs to be implemented")
            \o (IF ~Truthy(page_urls) \/ \A i \in 1..Len(page_urls.v) : strip(page_urls.v[i]) = ""
                THEN <<Issue("pageUrls", "med",
                             "Impacted page URLs help developers understand the implementation context")>>
                ELSE <<>>)
            \o required("targetLaunchDate",
                        "Target go-live date is required for project planning and deployment scheduling")
        typed(found) ==
            CASE change_type = Str("New Banner") ->
                    found \o (IF no_copy
                              THEN <<Issue("copy", "med",
                                           "Banner copy content (English or Chinese) is needed for implementation")>>
                              ELSE <<>>)
              [] change_type = Str("Content Update") ->
                    found \o (IF no_copy
                              THEN <<Issue("copy", "high",
                                           "Updated copy content is required for content change implementation")>>
                              ELSE <<>>)
              [] change_type = Str("New Feature") ->
                    found
                    \o (IF Blank(ticket_summary.description)
                           \/ Len(ticket_summary.description.v) < 50
                        THEN <<Issue("description", "high",
                                     "New features require detailed description of functionality and user interactions")>>
                                 \o <<Issue("internal_review", "low", NewFeatureReminder)>>
                        ELSE IF found # <<>>
                        THEN <<Issue("internal_review", "low", NewFeatureReminder)>>
                        ELSE <<>>)
              [] OTHER -> found
        completed(issues) ==
            IF issues = <<>> /\ change_type # Str("New Feature")
            THEN <<Issue("general", "low", "Form appears complete - ready for review")>>
            ELSE issues
        answer(issues, fallback_criteria) ==
            IF Raised(fallback_criteria) THEN fallback_criteria
            ELSE Dict([ decision |-> Str("approve"), issues |-> List(issues),
                        acceptanceCriteria |-> fallback_criteria,
                        confidence |-> Num(H(40)) ])
    IN  IF \/ \E k \in {"requesterName", "changeType", "pageArea", "description",
                        "targetLaunchDate"} : ~IsStr(ticket_summary[k])
           \/ (Truthy(page_urls) /\ page_urls.t # "list")
           \/ (change_type \in {Str("New Banner"), Str("Content Update")}
                 /\ (~IsStr(ticket_summary.copyEn) \/ ~IsStr(ticket_summary.copyZh)))
        THEN Raise("AttributeError: object has no attribute 'strip'")
        ELSE answer(completed(typed(general)),
                    get_fallback_business_criteria(change_type, ticket_summary))

\* get_business_focused_prompt raises on copy that is no string
prompt_raises(ticket_summary) ==
    ~IsStr(ticket_summary.copyEn) \/ ~IsStr(ticket_summary.copyZh)

\* The loop over uploaded_assets[:2] raises on an asset that is no object or
\* whose type is no string
assets_raise(uploaded_assets) ==
    /\ Truthy(uploaded_assets)
    /\ \/ uploaded_assets.t # "list"
       \/ \E i \in 1..Min(2, Len(uploaded_assets.v)) :
             LET asset == uploaded_assets.v[i]
             IN  asset.t # "dict" \/ ~IsStr(Get(asset.v, "type", Str("unknown")))

Claims(event) ==
    LET at(d, k) == IF d.t = "dict" THEN Get(d.v, k, EmptyDict) ELSE Raise("AttributeError")
        jwt(a) == IF Raised(a) THEN a ELSE at(a, "jwt")
        claims(j) == IF Raised(j) THEN j ELSE at(j, "claims")
    IN  claims(jwt(at(Get(event, "requestContext", EmptyDict), "authorizer")))

\* The user of the JWT claims, None without claims, email or sub
extract_user_context(event) ==
    LET user(email, user_id, username) ==
            IF ~Truthy(email) \/ ~Truthy(user_id) THEN None
            ELSE IF ~Truthy(username) /\ ~IsStr(email) THEN None
            ELSE Dict([ email |-> email, userId |-> user_id,
                        username |-> IF Truthy(username) THEN username
                                     ELSE Str(SubSeq(email.v, 1,
                                                     IF find(email.v, "@") = 0 THEN Len(email.v)
                                                     ELSE find(email.v, "@") - 1)) ])
        read(claims) ==
            IF Raised(claims) THEN None
            ELSE IF ~Truthy(claims) \/ claims.t # "dict" THEN None
            ELSE user(Get(claims.v, "email", None), Get(claims.v, "sub", None),
                      Or(Get(claims.v, "cognito:username", None),
                         Get(claims.v, "username", None)))
    IN  read(Claims(event))

Unbound == [t |-> "unbound"]

\* response_text with a fence of a markdown code block taken off
unfenced(response_text) ==
    IF StartsAt(response_text, 1, Fence \o "json")
    THEN strip(remove_all(remove_all(response_text, Fence \o "json\n"), "\n" \o Fence))
    ELSE IF StartsAt(response_text, 1, Fence)
    THEN strip(remove_all(remove_all(response_text, Fence \o "\n"), "\n" \o Fence))
    ELSE response_text

\* lambda_handler from the model's text to the analysis it returns, or what it raised
preview_analysis(response_text, ticket_summary, change_type) ==
    LET validated(ai, q) ==
            IF Raised(q) THEN q
            ELSE IF q.used_fallback
            THEN DictSet(DictSet(ai, "acceptanceCriteria", List(q.acceptance_criteria)),
                         "qualityNote", Str(q.reason))
            ELSE DictSet(ai, "acceptanceCriteria", List(q.acceptance_criteria))
        filtered(ai, criteria) ==
            IF ~Truthy(criteria) THEN ai
            ELSE IF criteria.t \in {"num", "bool"}
            THEN Raise("TypeError: object is not iterable")
            ELSE validated(ai, apply_quality_validation_and_fallback(
                                   filter_system_enforced_items(criteria.v),
                                   change_type, ticket_summary))
        quality(ai) == IF Raised(ai) THEN ai ELSE filtered(ai, ai.acceptanceCriteria)
        noted(ai) == DictSet(ai, "summaryNote", Str(NewFeatureReminder))
        cleared(ai) == DictSet(DictSet(noted(ai), "decision", Str("approve")),
                               "issues", List(<<>>))
        \* any(issue.get('severity') == 'high' ...) stops at the first such issue
        scanned(ai, issues, high, other) ==
            IF other # {} /\ (high = {} \/ Least(other) < Least(high))
            THEN Raise("AttributeError: object has no attribute 'get'")
            ELSE IF high # {} THEN noted(ai) ELSE cleared(ai)
        reminded(ai, issues) ==
            IF issues.t \in {"null", "num", "bool"}
            THEN Raise("TypeError: object is not iterable")
            ELSE IF issues.t # "list"
            THEN (IF Truthy(issues) THEN Raise("AttributeError: object has no attribute 'get'")
                  ELSE cleared(ai))
            ELSE scanned(ai, issues.v,
                         {i \in 1..Len(issues.v) :
                             issues.v[i].t = "dict"
                                 /\ Get(issues.v[i].v, "severity", None) = Str("high")},
                         {i \in 1..Len(issues.v) : issues.v[i].t # "dict"})
        new_feature(ai) ==
            IF change_type = Str("New Feature") THEN reminded(ai, ai.issues) ELSE ai
        defaults == [ decision |-> Str("approve"), issues |-> List(<<>>),
                      acceptanceCriteria |-> List(<<>>), confidence |-> Num(H(50)) ]
        setdefault(ai) ==
            [k \in DOMAIN ai \cup DOMAIN defaults |-> IF k \in DOMAIN ai THEN ai[k] ELSE defaults[k]]
        required(ai_analysis) ==
            IF Raised(ai_analysis) THEN ai_analysis
            ELSE IF ai_analysis.t # "dict"
            THEN Raise("AttributeError: object has no attribute 'setdefault'")
            ELSE quality(new_feature(setdefault(ai_analysis.v)))
        loaded(parsed) ==
            required(IF parsed.ok THEN parsed.v
                     ELSE generate_field_validation_fallback(ticket_summary, change_type))
    IN  loaded(json_loads(unfenced(response_text)))

Headers(allow) ==
    [ content_type |-> "application/json", allow_headers |-> allow,
      allow_methods |-> "POST, OPTIONS" ]

\* The response of the except branch of lambda_handler, or what the branch
\* raised: body is not bound when json.loads raised on the request
error_response(body) ==
    LET answered(change_type, fallback_criteria) ==
            IF Raised(fallback_criteria) THEN fallback_criteria
            ELSE [ statusCode |-> 200, headers |-> Headers("Content-Type"),
                   body |-> Dict([
                       decision |-> Str("approve"),
                       issues |-> List(
                           <<Issue("general", "high",
                                   "AI analysis temporarily unavailable - please review manually")>>
                           \o (IF change_type = Str("New Feature")
                               THEN << Issue("internal_review", "low", NewFeatureNote),
                                       Issue("summary_note", "info", NewFeatureReminder) >>
                               ELSE <<>>)),
                       acceptanceCriteria |-> fallback_criteria,
                       criteriaCategorization |-> categorize_criteria_by_type(fallback_criteria.v),
                       confidence |-> Num(0) ]) ]
        fallback(form_data) ==
            answered(Get(form_data, "changeType", Str("general")),
                     get_fallback_business_criteria(
                         Get(form_data, "changeType", Str("general")),
                         [k \in {"pageArea", "description", "copyEn", "copyZh"} |->
                             Get(form_data, k, Str(""))]))
        read(form_data) ==
            IF form_data.t # "dict" THEN Raise("AttributeError: object has no attribute 'get'")
            ELSE fallback(form_data.v)
    IN  IF body = Unbound
        THEN Raise("UnboundLocalError: cannot access local variable 'body'")
        ELSE IF body.t # "dict" THEN Raise("AttributeError: object has no attribute 'get'")
        ELSE read(Get(body.v, "formData", EmptyDict))

(* lambda_handler of the AI preview, step by step: arg is the event, out the
   locals of the handler and its response *)

PreviewClaims ==
    { Absent,
      Dict([email |-> Str("ana@logicart.com")]),
      Dict([email |-> Str("ana@logicart.com"), sub |-> Str("user-1")]) }

BannerForm ==
    "{\"requesterName\": \"Ana\", \"changeType\": \"New Banner\", \"pageArea\": \"Home\", "
        \o "\"description\": \"Spring sale hero\", \"pageUrls\": [\"https://logicart.com/\"], "
        \o "\"targetLaunchDate\": \"2025-03-01\", \"copyEn\": \"Spring Sale\"}"

PreviewBodies ==
    { Absent, None,
      Dict([formData |-> Dict([changeType |-> Str("SEO Update"), pageArea |-> Str("Blog")])]),
      Str("{\"formData\": " \o BannerForm \o "}"),
      Str("{\"formData\": " \o BannerForm
              \o ", \"uploadedAssets\": [{\"filename\": \"hero.png\", \"altText\": \"\"}]}"),
      Str("{\"formData\": " \o BannerForm \o ", \"uploadedAssets\": [7]}"),
      Str("{\"formData\": {\"requesterName\": \"Ana\", \"changeType\": \"New Feature\", "
              \o "\"description\": \"Wishlist\"}}"),
      Str("{\"formData\": {\"changeType\": \"Bug Fix\", \"description\": null}}"),
      Str("{\"formData\": {\"changeType\": \"Content Update\", \"copyEn\": null}}"),
      Str("{\"formData\": null}"),
      Str("{}"), Str("[]"), Str("null"), Str(""), Str("{\"formData\": {\"changeType\"") }

PreviewEvents ==
    { MkObj([ requestContext |->
                  IF c = Absent THEN Absent
                  ELSE Dict([authorizer |-> Dict([jwt |-> Dict([claims |-> c])])]),
              body |-> b ]) : c \in PreviewClaims, b \in PreviewBodies }

\* What bedrock_runtime.converse does: it raises, or the model answers with a text
PreviewOutcomes ==
    { [kind |-> "converse_failed"] }
        \cup { [kind |-> "answered", text |-> t] :
                 t \in { Fence \o "json\n{\"decision\": \"reject\", \"issues\": [{\"field\": \"copy\", "
                             \o "\"severity\": \"high\", \"note\": \"Copy is missing\"}], "
                             \o "\"acceptanceCriteria\": [\"Banner shows the Spring Sale copy in the hero\", "
                             \o "\"Alt text is provided for all images\", "
                             \o "\"Banner links to the sale page\", "
                             \o "\"Launch happens on the target date\"], \"confidence\": 0.9}\n" \o Fence,
                         "{\"decision\": \"approve\", \"acceptanceCriteria\": "
                             \o "[\"Banner shows the Spring Sale copy\"], \"confidence\": 0.8}",
                         "{}",
                         "Sorry, I cannot analyse this request.",
                         "[]",
                         "{\"issues\": null}",
                         "{\"acceptanceCriteria\": 5}" } }

NoResponse == <<>>

InitPreview ==
    /\ pc = "preview_auth" /\ ticket = NoTicket /\ IdleProcess
    /\ fn = "none"
    /\ arg \in PreviewEvents
    /\ out = [ body |-> Unbound, ticket_summary |-> <<>>, change_type |-> None,
               response |-> NoResponse ]

\* extract_user_context; without a user the handler answers 401
PreviewAuthenticate ==
    /\ pc = "preview_auth"
    /\ fn' = "lambda_handler"
    /\ IF extract_user_context(arg) = None
       THEN /\ out' = [out EXCEPT !.response =
                          [ statusCode |-> 401,
                            headers |-> Headers("Content-Type, Authorization"),
                            body |-> Dict([ error |-> Str("unauthorized"),
                                            message |-> Str("Valid JWT token required") ]) ]]
            /\ pc' = "preview_done"
       ELSE /\ out' = out
            /\ pc' = "preview_request"
    /\ UNCHANGED <<ticket, ProcessVars, arg>>

\* The request body is decoded and the prompt put together; any exception leads
\* to the except branch, with body bound only if json.loads returned
PreviewReadRequest ==
    /\ pc = "preview_request"
    /\ LET summarized(body, form_data) ==
               IF form_data.t # "dict"
                  \/ prompt_raises(TicketSummary(form_data.v))
                  \/ assets_raise(Get(body.v, "uploadedAssets", List(<<>>)))
               THEN /\ out' = [out EXCEPT !.body = body]
                    /\ pc' = "preview_except"
               ELSE /\ out' = [out EXCEPT !.body = body,
                                          !.ticket_summary = TicketSummary(form_data.v),
                                          !.change_type = Get(form_data.v, "changeType", Str(""))]
                    /\ pc' = "preview_model"
           decoded(parsed) ==
               IF ~parsed.ok
               THEN /\ out' = out
                    /\ pc' = "preview_except"
               ELSE IF parsed.v.t # "dict"
               THEN /\ out' = [out EXCEPT !.body = parsed.v]
                    /\ pc' = "preview_except"
               ELSE summarized(parsed.v, Get(parsed.v.v, "formData", EmptyDict))
       IN  decoded(IF "body" \notin DOMAIN arg THEN JsonOk(Dict(arg), 0)
                   ELSE IF IsStr(arg.body) THEN json_loads(arg.body.v)
                   ELSE JsonOk(arg.body, 0))
    /\ UNCHANGED <<ticket, ProcessVars, fn, arg>>

\* bedrock_runtime.converse and what lambda_handler makes of the answer
PreviewInvokeModel ==
    /\ pc = "preview_model"
    /\ \E o \in PreviewOutcomes :
          LET analysed(ai_analysis) ==
                  IF Raised(ai_analysis)
                  THEN /\ out' = out
                       /\ pc' = "preview_except"
                  ELSE /\ out' = [out EXCEPT !.response =
                                     [ statusCode |-> 200, headers |-> Headers("Content-Type"),
                                       body |-> Dict(ai_analysis) ]]
                       /\ pc' = "preview_done"
          IN  analysed(IF o.kind = "converse_failed" THEN Raise("ClientError")
                       ELSE preview_analysis(o.text, out.ticket_summary, out.change_type))
    /\ UNCHANGED <<ticket, ProcessVars, fn, arg>>

\* except Exception: the fallback answer, unless the branch raises itself
PreviewExcept ==
    /\ pc = "preview_except"
    /\ out' = [out EXCEPT !.response = error_response(out.body)]
    /\ pc' = "preview_done"
    /\ UNCHANGED <<ticket, ProcessVars, fn, arg>>

NextPreview ==
    PreviewAuthenticate \/ PreviewReadRequest \/ PreviewInvokeModel \/ PreviewExcept

SpecPreview == InitPreview /\ [][NextPreview]_vars

(* Every path that produces a decision record *)

InitAll == InitProcess \/ InitInterp \/ InitFallback
NextAll == NextProcess \/ NextInterp \/ NextFallback
SpecAll == InitAll /\ [][NextAll]_vars

-----------------------------------------------------------------------------
(* Properties of process_request *)

Ended == pc = "done" /\ result # NoResult

\* result["email"] with a non-empty subject and a non-empty body
HasEmail(r) ==
    /\ "email" \in DOMAIN r
    /\ r.email # NoEmail /\ r.email # None
    /\ r.email.subject # "" /\ r.email.body # ""

\* C1: every REJECT or NEEDS_INFO decision process_request returns carries an
\* email whose subject and body are non-empty, on every path.
C1_RejectAndNeedsInfoCarryEmail ==
    (Ended /\ result.decision \in {"REJECT", "NEEDS_INFO"}) => HasEmail(result)

UrlApproved(url) ==
    url # "" /\ ~urlparse_raises(url) /\ host_approved(lower(urlparse_netloc(url)))

UrlNonApprovedHost(url) ==
    url # "" /\ ~urlparse_raises(url) /\ ~host_approved(lower(urlparse_netloc(url)))

AllUrlsApproved(t) == \A i \in 1..Len(t.page_urls) : UrlApproved(t.page_urls[i])

SomeUrlNonApproved(t) == \E i \in 1..Len(t.page_urls) : UrlNonApprovedHost(t.page_urls[i])

\* every image analysis of the invocation came back as the error record
EveryVisionCallFailed ==
    /\ loc.analyses # <<>>
    /\ \A i \in 1..Len(loc.analyses) : Truthy(Get(loc.analyses[i], "error", Bool(FALSE)))

\* C2: when the vision call fails for a NEW_BANNER ticket whose URLs are all
\* approved, the decision is the fallback engine's: NEEDS_INFO with
\* fallback_analysis = true, never REJECT.
C2_VisionFailureYieldsFallbackNeedsInfo ==
    (Ended /\ ticket.request_type = "NEW_BANNER" /\ AllUrlsApproved(ticket)
           /\ EveryVisionCallFailed)
        => /\ result.decision = "NEEDS_INFO"
           /\ Get(result, "fallback_analysis", FALSE) = TRUE

UrlShortCircuit ==
    /\ result.decision = "REJECT" /\ result.confidence = H(90)
    /\ calls.presign = 0 /\ calls.vision = 0

\* C3 as stated: a NEW_BANNER ticket with a URL on a non-approved host always
\* ends in REJECT with confidence 0.9, with no asset-URL resolution and no
\* vision call.
C3_NonApprovedUrlAlwaysRejects ==
    (Ended /\ loc.ticket # NoTicket /\ ticket.request_type = "NEW_BANNER"
           /\ SomeUrlNonApproved(ticket))
        => UrlShortCircuit

\* C3 amended: once the ticket and the policy have been fetched, a NEW_BANNER
\* ticket with a URL on a non-approved host gets REJECT with confidence 0.9, and
\* at no point of the processing is an asset URL resolved or the vision model
\* called.
C3_NonApprovedUrlRejectsAfterPolicy ==
    (ticket.request_type = "NEW_BANNER" /\ SomeUrlNonApproved(ticket))
        => /\ calls.presign = 0 /\ calls.vision = 0
           /\ (loc.policy_text # "" /\ result # NoResult) => UrlShortCircuit

C3_Witness ==
    /\ Ended /\ ticket.request_type = "NEW_BANNER" /\ SomeUrlNonApproved(ticket)
    /\ loc.policy_text # "" /\ Len(ticket.assets) > 0
    /\ UrlShortCircuit /\ store.status = "rejected"

\* C5: a NEW_FEATURE ticket whose lookup and policy fetch succeeded gets
\* NEEDS_INFO with confidence exactly 1.0 and a guidance email, whatever its
\* URLs, assets and text, and the vision model is never called for it.
C5_FeatureAlwaysNeedsInfo ==
    (ticket.request_type = "NEW_FEATURE")
        => /\ calls.vision = 0
           /\ (loc.policy_text # "" /\ result # NoResult)
                 => /\ result.decision = "NEEDS_INFO"
                    /\ result.confidence = H(100)
                    /\ HasEmail(result)
                    /\ result.email = _feature_email_from_policy(ticket)

C5_Witness ==
    /\ Ended /\ ticket.request_type = "NEW_FEATURE" /\ loc.policy_text # ""
    /\ SomeUrlNonApproved(ticket) /\ Len(ticket.assets) > 0
    /\ result.decision = "NEEDS_INFO" /\ result.confidence = H(100)
    /\ store.status = "needs_info"

Persisted ==
    /\ store.agentDecision # <<>>
    /\ store.agentDecision.decision = result.decision

\* C8: every invocation of process_request, whichever collaborator fails, ends
\* with the decision persisted for the ticket and the notification email
\* dispatched to the requester.
C8_EndsPersistedAndNotified ==
    (pc = "done") => (Persisted /\ loc.notified /\ Len(sns) = 1)

-----------------------------------------------------------------------------
(* Properties of the Vision Policy Interpreter *)

Appropriate(visual) == visual.content_appropriateness.v.appropriate.v
ModelConfidence(visual) == visual.overall_compliance.v.confidence.v

\* C4: a record with content_appropriateness.appropriate = false is always
\* answered with REJECT, with confidence max(0.7, model confidence) limited to
\* [0,1], whatever the score, issues, colours, compliant flag, ticket text and
\* prior URL reasons.
C4_InappropriateAlwaysRejects ==
    (fn = "_visual_policy_decision" /\ ~Appropriate(arg.visual))
        => /\ ~Raised(out)
           /\ out.decision = "REJECT"
           /\ out.confidence = Min(H(100), Max(0, Max(H(70), ModelConfidence(arg.visual))))
           /\ out.confidence >= H(70) /\ out.confidence <= H(100)

\* An inappropriate record that every approval rule would otherwise accept
C4_Witness ==
    /\ fn = "_visual_policy_decision" /\ ~Appropriate(arg.visual)
    /\ arg.visual.visual_quality.v.score.v = H(150)
    /\ arg.visual.overall_compliance.v.compliant.v
    /\ has_brand_color(arg.visual) /\ is_festival(ticket)
    /\ ModelConfidence(arg.visual) = H(150)
    /\ arg.visual.content_appropriateness.v.concerns.v = <<>>
    /\ Len(arg.prior_reasons) = MaxPrior
    /\ out.decision = "REJECT" /\ out.confidence = H(100)

QualityScore(visual) == visual.visual_quality.v.score.v

\* The issues and concerns of a record
IssuesOf(visual) ==
    visual.visual_quality.v.issues.v \o visual.content_appropriateness.v.concerns.v

\* A reason that is one of the record's issues or names the quality
RefersToImageQuality(reason, visual) ==
    InList(reason, IssuesOf(visual)) \/ IsSubstr("quality", lower(reason))

\* C14: a record with appropriate = true and quality score <= 0.3 is answered
\* with REJECT, with a confidence of at least 0.7 and at least one reason that
\* refers to the image quality, also when the record has no issue and there is no
\* prior URL reason.
C14_LowQualityRejectsWithQualityReason ==
    (fn = "_visual_policy_decision" /\ Appropriate(arg.visual)
        /\ QualityScore(arg.visual) <= H(30))
        => /\ ~Raised(out)
           /\ out.decision = "REJECT"
           /\ out.confidence >= H(70)
           /\ \E i \in 1..Len(out.reasons) : RefersToImageQuality(out.reasons[i], arg.visual)

NoQualityBlocker(visual) ==
    \A i \in 1..Len(IssuesOf(visual)) : ~_looks_like_quality_blocker(IssuesOf(visual)[i])

MentionsFestival(t) == IsSubstr("festival", lower(t.title \o " " \o t.description))

\* C15: for a banner ticket with approved URLs only and a record with
\* appropriate = true, quality score >= 0.5, no quality-blocker issue and a brand
\* color among colors_detected, or "festival" in the ticket title or description, or
\* compliant = true, the interpreter answers APPROVE with confidence
\* min(1.0, max(0.8, model confidence)).
C15_ApproveRuleWithConfidence ==
    (fn = "_visual_policy_decision" /\ AllUrlsApproved(ticket)
        /\ Appropriate(arg.visual) /\ QualityScore(arg.visual) >= H(50)
        /\ NoQualityBlocker(arg.visual)
        /\ (has_brand_color(arg.visual) \/ MentionsFestival(ticket)
               \/ arg.visual.overall_compliance.v.compliant.v))
        => /\ ~Raised(out)
           /\ out.decision = "APPROVE"
           /\ out.confidence = Min(H(100), Max(H(80), ModelConfidence(arg.visual)))

\* A festival ticket whose record has no brand color and compliant = false, a
\* model confidence above 1 and an issue that blocks nothing, after URL reasons
C15_Witness ==
    /\ fn = "_visual_policy_decision" /\ AllUrlsApproved(ticket)
    /\ Appropriate(arg.visual) /\ QualityScore(arg.visual) = H(50)
    /\ arg.visual.visual_quality.v.issues.v = <<"Busy layout">>
    /\ ~has_brand_color(arg.visual) /\ ~arg.visual.overall_compliance.v.compliant.v
    /\ MentionsFestival(ticket)
    /\ ModelConfidence(arg.visual) = H(150)
    /\ arg.prior_reasons # <<>>
    /\ out.decision = "APPROVE" /\ out.confidence = H(100)

\* C17: every decision of the interpreter, APPROVE included, lists the prior
\* URL reasons (as many as the limit of five lets through) ahead of its own.
C17_PriorReasonsLeadEveryDecision ==
    (fn = "_visual_policy_decision" /\ ~Raised(out))
        => LET n == Min(5, Len(arg.prior_reasons))
           IN  /\ Len(out.reasons) >= n
               /\ SubSeq(out.reasons, 1, n) = SubSeq(arg.prior_reasons, 1, n)

ConcernsOf(visual) == visual.content_appropriateness.v.concerns.v

\* C18: a reject for inappropriate content names at least one concern of the
\* record among its reasons, or the generic reason when the record has no concern,
\* for any number of prior reasons and any concerns.
C18_InappropriateRejectNamesConcern ==
    (fn = "_visual_policy_decision" /\ ~Appropriate(arg.visual))
        => /\ out.decision = "REJECT"
           /\ IF ConcernsOf(arg.visual) = <<>>
              THEN InList("Inappropriate or unprofessional content detected", out.reasons)
              ELSE \E i \in 1..Len(ConcernsOf(arg.visual)) :
                      InList(ConcernsOf(arg.visual)[i], out.reasons)

\* C20: the fallback record of an answer that did not parse is never answered
\* with APPROVE, whatever the answer text held.
C20_UnparsedNeverApproved ==
    (fn = "_visual_policy_decision" /\ "parsing_error" \in DOMAIN arg.visual)
        => (~Raised(out) /\ out.decision # "APPROVE")

-----------------------------------------------------------------------------
(* Properties of every decision record *)

ReasonsWithinLimit(r) ==
    /\ Len(r.reasons) <= 5
    /\ \A i \in 1..Len(r.reasons) : r.reasons[i] # ""

\* C6: every decision record, of process_request (URL reject, interpreter,
\* no image, feature, unknown type, system error), of the interpreter called
\* alone, of the fallback rule engine and of the error router, has at most 5
\* reasons and no empty reason.
C6_ReasonsAtMostFiveNoneEmpty ==
    /\ (result # NoResult) => ReasonsWithinLimit(result)
    /\ (fn \in {"_visual_policy_decision", "analyze_banner_fallback", "handle_error"}
          /\ ~Raised(out)) => ReasonsWithinLimit(out)

\* More than five URL findings, cut down to five reasons
C6_Witness ==
    /\ Ended /\ result.decision = "REJECT"
    /\ Len(_validate_urls(ticket.page_urls).reject_reasons) > 5
    /\ Len(result.reasons) = 5

-----------------------------------------------------------------------------
(* Properties of the Fallback Rule Engine and the Error Router *)

\* The URLs _check_urls looks at
CheckedUrls(t) == {strip(t.target_url)} \cup {strip(t.page_urls[i]) : i \in 1..Len(t.page_urls)}

NonApprovedDomainFinding(t) ==
    \E u \in CheckedUrls(t) :
        /\ u # "" /\ ~urlparse_raises(u)
        /\ ~InList(lower(urlparse_netloc(u)), APPROVED_DOMAINS)

\* C7: the fallback engine and the error router never approve, and
\* analyze_banner_fallback returns REJECT only when a URL of the ticket has a
\* non-approved-domain finding.
C7_NeverApproveRejectOnlyOnDomainFinding ==
    /\ (fn \in {"analyze_banner_fallback", "handle_error"})
          => out.decision \in {"REJECT", "NEEDS_INFO"}
    /\ (fn = "analyze_banner_fallback" /\ out.decision = "REJECT")
          => NonApprovedDomainFinding(ticket)

-----------------------------------------------------------------------------
(* Properties of the Response Normalizer *)

InUnitInterval(x) == IsNumber(x) /\ Float(x) >= 0 /\ Float(x) <= H(100)

\* C9: the normalized record has visual_quality.score and
\* overall_compliance.confidence inside [0,1], and each list field is a list,
\* never null.
C9_ScoresClampedListsNeverNull ==
    (fn = "validated" /\ ~Raised(out))
        => /\ InUnitInterval(out.visual_quality.v.score)
           /\ InUnitInterval(out.overall_compliance.v.confidence)
           /\ out.colors_detected.t = "list"
           /\ out.brand_elements.t = "list"
           /\ out.text_content.t = "list"
           /\ out.visual_quality.v.issues.t = "list"
           /\ out.content_appropriateness.v.concerns.t = "list"

\* C10: normalizing a normalized record returns the same record.
C10_NormalizationIdempotent ==
    (fn = "revalidated") => (~Raised(out.again) /\ out.again = out.first)

\* An object the first normalization changes: coerced flags, defaulted score
C10_Witness ==
    /\ fn = "revalidated"
    /\ Get(arg, "logo_present", None) = Str("yes")
    /\ "visual_quality" \in DOMAIN arg /\ arg.visual_quality.t = "dict"
    /\ Get(arg.visual_quality.v, "score", None) = Str("high")
    /\ Get(arg, "colors_detected", None) = None
    /\ out.first.logo_present = Bool(TRUE)
    /\ out.first.visual_quality.v.score = Num(H(50))
    /\ out.again = out.first

-----------------------------------------------------------------------------
(* Properties of the Response Parser *)

VisionAnalysisFields ==
    {"colors_detected", "logo_present", "brand_elements", "text_content", "visual_quality",
     "accessibility", "content_appropriateness", "overall_compliance"}

NoObjectOrParsingFails(text) ==
    LET json_str == _extract_json(text)
    IN  json_str = "" \/ ~json_loads(json_str).ok

\* C11: for every answer text the parser returns a record with the eight
\* fields of the analysis record and raises nothing; when the text holds no balanced
\* object or the object does not decode, the record is the fallback record with
\* quality score 0.4, compliant false and confidence 0.3.
C11_ParserTotalWithFallback ==
    (fn = "_parse_analysis_response")
        => /\ ~Raised(out)
           /\ VisionAnalysisFields \subseteq DOMAIN out
           /\ NoObjectOrParsingFails(arg)
                 => /\ out = _create_fallback_analysis(arg)
                    /\ out.visual_quality.v.score = Num(H(40))
                    /\ out.overall_compliance.v.compliant = Bool(FALSE)
                    /\ out.overall_compliance.v.confidence = Num(H(30))

\* A fenced answer whose braces balance inside a string: an object is extracted,
\* it does not decode, the fallback record comes back
C11_Witness ==
    /\ fn = "_parse_analysis_response"
    /\ IsSubstr(Fence, arg)
    /\ _extract_json(arg) # ""
    /\ ~json_loads(_extract_json(arg)).ok
    /\ out.parsing_error = Bool(TRUE)
    /\ out.logo_present = Bool(TRUE)

-----------------------------------------------------------------------------
(* Properties of the multi-image combination *)

SameSignals(x, y) ==
    /\ x.colors_detected = y.colors_detected
    /\ x.brand_elements = y.brand_elements
    /\ x.text_content = y.text_content
    /\ x.logo_present = y.logo_present
    /\ x.content_appropriateness = y.content_appropriateness

SameScores(x, y) ==
    /\ x.visual_quality.v.score = y.visual_quality.v.score
    /\ x.overall_compliance.v.compliant = y.overall_compliance.v.compliant
    /\ x.overall_compliance.v.confidence = y.overall_compliance.v.confidence

\* C12: the combination of a list of per-image records and the combination of
\* any permutation of it have the same colors, brand elements, text content, logo
\* flag, appropriateness, concerns, quality score, compliance flag and confidence.
C12_CombineOrderIndependent ==
    (fn = "reordered") => (SameSignals(out.given, out.reordered)
                              /\ SameScores(out.given, out.reordered))

-----------------------------------------------------------------------------
(* The two URL classifiers compared *)

NonApprovedDomainText == "uses non-approved domain (policy: approved LogicCart properties only)"

\* _check_urls returned a finding of the non-approved-domain kind
ReportsNonApprovedDomain(t) ==
    LET found == _check_urls(t)
    IN  \E i \in 1..Len(found) : EndsWith(found[i], NonApprovedDomainText)

\* _validate_urls returned a finding of the reject class
ReportsRejectClass(t) == _validate_urls(t.page_urls).reject_reasons # <<>>

\* C16: for every URL list, _check_urls reports a non-approved-domain finding
\* (and analyze_banner_fallback then returns REJECT) exactly when _validate_urls
\* reports a reject-class finding; a URL on a subdomain of an approved domain
\* is accepted by both.
C16_FallbackClassifiesUrlsAsValidator ==
    (fn = "analyze_banner_fallback")
        => /\ ReportsNonApprovedDomain(ticket) <=> ReportsRejectClass(ticket)
           /\ ReportsNonApprovedDomain(ticket) => out.decision = "REJECT"

\* C19: when the URL validator returned a needs-info-class finding for a banner
\* ticket, _process_banner never returns APPROVE, whatever the images show.
C19_NeedsInfoUrlFindingNeverApproved ==
    (Ended /\ ticket.request_type = "NEW_BANNER"
           /\ _validate_urls(ticket.page_urls).needs_info_reasons # <<>>)
        => result.decision # "APPROVE"

-----------------------------------------------------------------------------
(* Properties of banners with several images *)

\* The analysis of image i came back as the error record
AnalysisFailed(i) == Truthy(Get(loc.analyses[i], "error", Bool(FALSE)))

\* C21: when the analysis of at least one image of a banner with several images
\* failed, the banner is not approved.
C21_FailedImageNeverApproved ==
    (Ended /\ ticket.request_type = "NEW_BANNER" /\ Len(loc.analyses) >= 2
           /\ \E i \in 1..Len(loc.analyses) : AnalysisFailed(i))
        => result.decision # "APPROVE"

\* The record of image i is no error record and lists a quality-blocker issue
HasQualityBlocker(i) ==
    LET issues == Get(Get(loc.analyses[i], "visual_quality", EmptyDict).v, "issues", List(<<>>)).v
    IN  /\ ~AnalysisFailed(i)
        /\ \E k \in 1..Len(issues) : _looks_like_quality_blocker(issues[k])

\* C22: when the record of any single image of a banner with several images
\* lists a quality-blocker issue, the decision is REJECT, as it is for that
\* image alone.
C22_BlockerInAnyImageRejects ==
    (Ended /\ ticket.request_type = "NEW_BANNER" /\ Len(loc.analyses) >= 2
           /\ \E i \in 1..Len(loc.analyses) : HasQualityBlocker(i))
        => result.decision = "REJECT"

-----------------------------------------------------------------------------
(* Properties of the error classification *)

\* The keyword groups in the order quota/throttle, timeout, named service
\* (bedrock, s3, dynamodb, sns), generic network, validation
GroupsInStatedOrder ==
    <<ErrorPatterns[3], ErrorPatterns[2], ErrorPatterns[1], ErrorPatterns[4],
      ErrorPatterns[5], ErrorPatterns[6], ErrorPatterns[7], ErrorPatterns[8]>>

\* C23: classify_error returns, with or without an exception, the category of
\* the first keyword group the message (with the exception's type name, when
\* there is one) matches in the order quota/throttle, timeout, named service,
\* generic network, validation, UNKNOWN_ERROR when none matches; 'connection
\* refused' is NETWORK_ERROR.
C23_ClassifiesByStatedGroupOrder ==
    (fn = "classify_error")
        => /\ out = FirstMatch(GroupsInStatedOrder,
                                lower(arg.error_message \o " " \o arg.exception))
           /\ arg.error_message = "connection refused" => out = "network_error"

-----------------------------------------------------------------------------
(* Properties of the error routing *)

VisionErrorTypes == {"bedrock_unavailable", "bedrock_timeout", "bedrock_quota_exceeded"}

\* C24: for each vision-model error type handle_error dispatches on the request
\* type: NEW_BANNER gets the banner fallback with a fallback_reason that
\* contains the error message, NEW_FEATURE the feature NEEDS_INFO with
\* confidence 1.0, any other type the manual-review NEEDS_INFO with confidence 0.
C24_VisionErrorsDispatchOnRequestType ==
    (fn = "handle_error" /\ arg.error_type \in VisionErrorTypes)
        => CASE upper(ticket.request_type) = "NEW_BANNER" ->
                    /\ Get(out, "analysis_method", "") = "rule_based_fallback"
                    /\ Get(out, "fallback_analysis", FALSE)
                    /\ "fallback_reason" \in DOMAIN out
                    /\ IsSubstr(arg.error_message, out.fallback_reason)
             [] upper(ticket.request_type) = "NEW_FEATURE" ->
                    /\ Get(out, "analysis_method", "") = "policy_feature_guidance"
                    /\ out.decision = "NEEDS_INFO"
                    /\ out.confidence = H(100)
             [] OTHER ->
                    /\ out.decision = "NEEDS_INFO"
                    /\ out.confidence = 0
                    /\ "manual_review_required" \in DOMAIN out
                    /\ out.manual_review_required

\* A timeout of the vision model on a banner ticket, answered by the fallback
C24_Witness ==
    /\ fn = "handle_error" /\ arg.error_type = "bedrock_timeout"
    /\ ticket.request_type = "NEW_BANNER"
    /\ arg.error_message = "Read timeout on endpoint"
    /\ out.analysis_method = "rule_based_fallback"
    /\ out.fallback_reason = "Vision temporarily unavailable: Read timeout on endpoint"

\* write_result ended after the decision update, without a notification
DispatchFailed == pc = "done" /\ store.agentDecision # <<>> /\ ~loc.notified

\* The decision and the status in the store are those of the computed result
StoreKeepsComputedDecision ==
    /\ store.agentDecision.decision = result.decision
    /\ store.agentDecision.reasons = result.reasons
    /\ store.status = StatusOf(result.decision)

\* C25: when the notification dispatch fails, the decision and the status
\* write_result persisted stay those computed before the dispatch, and
\* handle_error for SNS_ERROR returns only a notification-failed marker that asks
\* for manual follow-up, no decision to put in the place of the computed one.
C25_DispatchFailureKeepsDecision ==
    /\ DispatchFailed => StoreKeepsComputedDecision
    /\ (fn = "handle_error" /\ arg.error_type = "sns_error")
          => /\ Get(out, "sns_error", FALSE)
             /\ Get(out, "manual_notification_required", FALSE)
             /\ "decision" \notin DOMAIN out

-----------------------------------------------------------------------------
(* Properties of the URL validator *)

\* urlparse returned and its netloc names a host
HostParses(url) == ~urlparse_raises(url) /\ urlparse_netloc(url) # ""

OnApprovedDomain(url) ==
    LET host == lower(urlparse_netloc(url))
    IN  \E i \in 1..Len(APPROVED_DOMAINS) :
           host = APPROVED_DOMAINS[i] \/ EndsWith(host, "." \o APPROVED_DOMAINS[i])

\* C26: _validate_urls reports a URL as a non-approved domain exactly when its
\* host parses and, in lower case, is neither an approved domain nor a subdomain
\* of one; a non-empty URL whose host does not parse is reported as needing
\* verification and never as a non-approved domain; the findings are never
\* more than the URLs.
C26_RejectsExactlyParseableForeignHosts ==
    fn = "_validate_urls" =>
        /\ \A i \in 1..Len(arg.urls) :
              LET url == arg.urls[i]
              IN  url # "" =>
                    /\ InList("Non-approved URL domain: " \o url, out.reject_reasons)
                          <=> (HostParses(url) /\ ~OnApprovedDomain(url))
                    /\ ~HostParses(url)
                          => InList("URL needs verification: " \o url, out.needs_info_reasons)
        /\ Len(out.reject_reasons) + Len(out.needs_info_reasons) <= Len(arg.urls)

-----------------------------------------------------------------------------
(* Properties of the calls to the vision model *)

\* The record analyze_image_from_url returns when invoke_model raised
InvocationFailed(i) ==
    \E o \in VisionOutcomes :
        o.kind = "invoke_failed" /\ loc.analyses[i] = analyze_image_from_url(o)

\* C27: during one process_request the vision model is invoked at most once for
\* each asset that resolved to an access URL: every invocation is for the image
\* URL that follows the ones already analysed, in the order of the assets, and
\* moves on to the next one whether it failed or not.
C27_OneVisionCallPerImageInOrder ==
    [][ /\ calls'.vision <= Len(loc'.analyses)
        /\ Len(loc'.analyses) <= Len(loc'.image_urls)
        /\ Len(loc'.image_urls) <= Len(ticket.assets)
        /\ calls'.vision # calls.vision
              => /\ calls'.vision = calls.vision + 1
                 /\ Len(loc'.analyses) = Len(loc.analyses) + 1
                 /\ loc'.image_urls = loc.image_urls
        /\ Len(loc'.analyses) >= Len(loc.analyses)
      ]_vars

\* Two images were analysed, the invocation for the first one failed, and the
\* model was invoked twice in all
C27_Witness ==
    /\ pc = "done" /\ Len(loc.image_urls) = 2 /\ Len(loc.analyses) = 2
    /\ InvocationFailed(1) /\ calls.vision = 2

-----------------------------------------------------------------------------
(* Properties of the order of the writes of write_result *)

DecisionStored == store.agentDecision # <<>>

\* C28: in write_result a notification is published only after the update of
\* the decision in the ticket store succeeded, so a failed update leaves no
\* notification behind, and emailSent is written only after a publish that
\* succeeded.
C28_PublishesOnlyAfterStoredDecision ==
    /\ sns # <<>> => DecisionStored
    /\ (pc = "done" /\ ~DecisionStored) => (sns = <<>> /\ store.emailSent = <<>>)
    /\ store.emailSent # <<>> => (sns # <<>> /\ loc.notified)
    /\ Len(sns) <= 1

\* The decision was stored, the notification published and emailSent recorded
C28_Witness ==
    /\ pc = "done" /\ DecisionStored
    /\ Len(sns) = 1 /\ sns[1].decision = store.agentDecision.decision
    /\ store.emailSent # <<>>

-----------------------------------------------------------------------------
(* Properties of the rule cascade of the interpreter *)

FinalFallbackError == "NameError: name 'tic' is not defined"

\* C29: the rule cascade of _visual_policy_decision is exhaustive: a call
\* returns a decision from one of the branches before the final fallback, and
\* the final fallback, whose call would raise a NameError, is reached neither
\* by a direct call nor inside process_request.
C29_CascadeNeverReachesFinalFallback ==
    /\ fn = "_visual_policy_decision"
          => /\ ~Raised(out)
             /\ out.decision \in {"APPROVE", "REJECT", "NEEDS_INFO"}
             /\ out.analysis_method = "policy_visual"
    /\ result # NoResult
          => \A i \in 1..Len(result.reasons) :
                ~IsSubstr(FinalFallbackError, result.reasons[i])

\* A call that got past both reject rules and both approve rules and returned
\* from the last branch before the final fallback
C29_Witness ==
    /\ fn = "_visual_policy_decision" /\ ~Raised(out)
    /\ Appropriate(arg.visual) /\ arg.prior_reasons = <<>>
    /\ out.decision = "NEEDS_INFO"

-----------------------------------------------------------------------------
(* Properties of the AI preview *)

Authenticated == extract_user_context(arg) # None

PreviewKeys == {"decision", "issues", "acceptanceCriteria", "confidence"}

\* C30: for every authenticated request, one whose body is no valid JSON and
\* one whose model call fails included, lambda_handler returns statusCode 200
\* with a body that holds decision, issues, acceptanceCriteria and confidence;
\* it never raises out of its except branch.
C30_PreviewAlwaysAnswers200 ==
    (pc = "preview_done" /\ Authenticated)
        => /\ ~Raised(out.response)
           /\ out.response.statusCode = 200
           /\ PreviewKeys \subseteq DOMAIN out.response.body.v
====
